---------------------------- MODULE Spec2Model ----------------------------
(***************************************************************************)
(* A state-machine model of the KenyaClaw agent swarm: the signed message  *)
(* envelope, the message bus, the base agent's receiveMessage life cycle,  *)
(* the query helper and the orchestrator's routing.                        *)
(*                                                                         *)
(* A JavaScript promise chain is modelled by its resumption points: the    *)
(* code that runs synchronously inside a call is one action, and every     *)
(* continuation after an await of an external result (processMessage, a    *)
(* nested send, a timer) is an action of its own.                          *)
(***************************************************************************)
EXTENDS Integers, Sequences, FiniteSets, TLC

VARIABLES
  now,             \* Date.now(), in milliseconds
  msgs,            \* the Message objects constructed so far, msgs[i].id = i unless tampered
  agents,          \* MessageBus.agents: the keys of the Map, in insertion order
  subscriptions,   \* MessageBus.agents: id -> record.subscriptions
  channels,        \* MessageBus.channels: channel -> subscribers, in insertion order
  messageHistory,  \* MessageBus.messageHistory
  maxHistory,      \* MessageBus.maxHistory
  metrics,         \* MessageBus.metrics
  agent,           \* the BaseAgent objects: id -> fields
  calls,           \* the MessageBus.send calls made so far and their deliveries
  last,            \* the operation of the latest step and what it returned
  initialized,     \* KenyaClawSwarm.initialized
  queries,         \* the promises BaseAgent.query has returned, with their timers
  runs,            \* the submitTask calls made so far and how each stands
  taskHistory,     \* SwarmOrchestrator.taskHistory
  task,            \* the task handed to selectArchitecture
  selected,        \* what selectArchitecture did with it
  exec             \* a call of a strategy's execute on agents of the caller's making

busVars == <<now, msgs, agents, subscriptions, channels, messageHistory,
             maxHistory, metrics, agent, calls, last>>

swarmVars == <<initialized, queries, runs, taskHistory, task, selected, exec>>

vars == <<busVars, swarmVars>>

-----------------------------------------------------------------------------
(* Bounds of the model *)

MaxExtMsgs == 2       \* Message objects constructed with new Message by outside callers
MaxDeliverMsgs == 3   \* Message objects in one behaviour of SpecDeliver
MaxHistoryMsgs == 3   \* Message objects in one behaviour of SpecHistory
MaxRegistryMsgs == 2  \* Message objects in one behaviour of SpecRegistry
MaxHalfSeconds == 3   \* the clock runs from 0 to this many half seconds
MaxCapacity == 2      \* the largest options.maxHistory tried
MaxEnvelopes == 1     \* Message objects in one behaviour of SpecEnvelope
MaxQueries == 2       \* calls of BaseAgent.query in one behaviour of SpecQuery
MaxQueryMsgs == 4     \* Message objects in one behaviour of SpecQuery
MaxTasks == 1         \* calls of submitTask in one behaviour of SpecStrategy
MaxStrategyMsgs == 6  \* Message objects in one behaviour of SpecStrategy

-----------------------------------------------------------------------------
(* Program constants *)

DefaultMaxHistory == 10000
DefaultTtl == 300
PriorityHigh == 2
PriorityNormal == 3

MessageTypes == {"command", "delegate", "report", "query", "response", "broadcast",
                 "proposal", "vote", "consensus", "heartbeat", "error", "status"}

MessageSecret == "default-secret"

Agents == {"winston", "john-wick", "adjudicator", "doctor", "charon"}

Role(a) ==
  CASE a = "winston" -> "CEO"
    [] a = "john-wick" -> "CTO"
    [] a = "adjudicator" -> "CFO"
    [] a = "doctor" -> "COO"
    [] a = "charon" -> "CCO"
    [] a = "auditor" -> "CFO"
    [] a = "analyst" -> "ANALYST"

\* config.skills; auditor and analyst are agents a caller constructs and registers
Skills(a) ==
  CASE a = "winston" -> <<"orchestration", "strategy", "coordination", "decision_making">>
    [] a = "john-wick" -> <<"infrastructure", "architecture", "security", "devops">>
    [] a = "adjudicator" -> <<"finance", "accounting", "audit", "compliance">>
    [] a = "doctor" -> <<"incident_response", "system_monitoring", "devops">>
    [] a = "charon" -> <<"customer_service", "onboarding", "support">>
    [] a = "auditor" -> <<"audit">>
    [] a = "analyst" -> <<"finance", "treasury", "security">>

-----------------------------------------------------------------------------
(* JavaScript values.  A string field holds either a string or one of the  *)
(* values named below; 0 stands for undefined/null where an id is expected *)

Undefined == "undefined"
Null == "null"
NaN == "NaN"
Omitted == ""

\* Date.prototype.toISOString / new Date(iso).getTime(), to the millisecond
ToISOString(ms) == [sec |-> ms \div 1000, msec |-> ms % 1000]
DateParse(iso) == iso.sec * 1000 + iso.msec

\* JSON.stringify of a property value: a property whose value is undefined is
\* left out of the text, NaN is written as null
JsonValue(v) ==
  IF v = Undefined THEN Omitted
  ELSE IF v = NaN THEN Null
  ELSE v

JsonId(n) == n   \* 0 (undefined) is left out, which no other number is written as

JsonPayload(p) == [inReplyTo |-> JsonId(p.inReplyTo), data |-> JsonValue(p.data)]

JsonStringify(m) ==
  [id |-> JsonId(m.id), timestamp |-> m.timestamp, sender |-> JsonValue(m.sender),
   type |-> JsonValue(m.type), payload |-> JsonPayload(m.payload)]

\* crypto.createHmac('sha256', secret).update(data).digest('hex'): injective here
Hmac(secret, data) == <<secret, data>>

-----------------------------------------------------------------------------
(* Message *)

sign(m) == Hmac(MessageSecret, JsonStringify(m))

verify(m) == m.signature = sign(m)

isExpired(m) == (now - DateParse(m.timestamp)) > m.ttl * 1000

NewMessageObject(id, sender, recipients, type, payload, priority, ttl) ==
  LET m == [id |-> id, timestamp |-> ToISOString(now), sender |-> sender,
            recipients |-> recipients, type |-> type, payload |-> payload,
            priority |-> priority, ttl |-> ttl]
  IN [id |-> m.id, timestamp |-> m.timestamp, sender |-> m.sender,
      recipients |-> m.recipients, type |-> m.type, payload |-> m.payload,
      priority |-> m.priority, ttl |-> m.ttl, signature |-> sign(m)]

toJSON(m) == m

\* recipient specs: a single id, a list of ids, or the literal 'broadcast'
Single(a) == [kind |-> "single", ids |-> <<a>>]
List(s) == [kind |-> "list", ids |-> s]
BroadcastSpec == [kind |-> "broadcast", ids |-> <<>>]

-----------------------------------------------------------------------------
(* Helpers on sequences *)

Range(s) == {s[i] : i \in 1..Len(s)}

Contains(s, x) == \E i \in 1..Len(s) : s[i] = x

RECURSIVE Without(_, _)
Without(s, x) ==
  IF s = <<>> THEN <<>>
  ELSE IF Head(s) = x THEN Without(Tail(s), x)
  ELSE <<Head(s)>> \o Without(Tail(s), x)

\* Set.prototype.add on an insertion-ordered set
SetAdd(s, x) == IF Contains(s, x) THEN s ELSE Append(s, x)

-----------------------------------------------------------------------------
(* BaseAgent *)

NewAgent ==
  [status |-> "idle", currentTask |-> 0, messageBus |-> FALSE, subscriptions |-> {},
   messagesReceived |-> 0, messagesSent |-> 0, tasksCompleted |-> 0, tasksFailed |-> 0]

\* a faulty variant: receiveMessage that does not count the envelope it is given
receiveMessageStartUncounted(ag, r, mid) ==
  [ag EXCEPT ![r].status = "busy", ![r].currentTask = mid]

\* receiveMessage up to its first await: the call of processMessage
receiveMessageStart(ag, r, mid) ==
  [ag EXCEPT ![r].messagesReceived = @ + 1,
             ![r].status = "busy",
             ![r].currentTask = mid]

\* the finally block of receiveMessage
receiveMessageFinally(ag, r, previousStatus) ==
  [ag EXCEPT ![r].status = IF previousStatus = "error" THEN "error" ELSE "idle",
             ![r].currentTask = 0]

updateMetrics(ag, r, success) ==
  IF success THEN [ag EXCEPT ![r].tasksCompleted = @ + 1]
  ELSE [ag EXCEPT ![r].tasksFailed = @ + 1]

\* this.currentTask?.id
CurrentTaskId(st, r) ==
  IF st.agent[r].currentTask = 0 THEN 0 ELSE st.msgs[st.agent[r].currentTask].id

-----------------------------------------------------------------------------
(* MessageBus.send.  st is the part of the state a send works on:          *)
(* [msgs, messageHistory, metrics, agent, calls].                          *)

State ==
  [msgs |-> msgs, messageHistory |-> messageHistory, metrics |-> metrics,
   agent |-> agent, calls |-> calls]

ResolveRecipients(m) ==
  IF m.recipients.kind = "broadcast" THEN agents ELSE m.recipients.ids

\* A delivery: one callback of recipients.map.  st is where it stands (processing:
\* awaiting processMessage; responding, erroring: awaiting the nested send of the
\* response or error envelope, call number child; delivered, failed: the record it
\* returned), prev is receiveMessage's previousStatus, seq the agent's
\* metrics.messagesReceived when receiveMessage was entered, outcome what
\* processMessage did.
NotFound(r) ==
  [recipientId |-> r, st |-> "failed", reason |-> "agent_not_found",
   prev |-> "", seq |-> 0, outcome |-> "", child |-> 0]

Processing(r, previousStatus, seq) ==
  [recipientId |-> r, st |-> "processing", reason |-> "",
   prev |-> previousStatus, seq |-> seq, outcome |-> "", child |-> 0]

RECURSIVE deliveriesAbort(_, _, _, _)
\* a faulty variant: a delivery loop that gives up at the first recipient it does not find
deliveriesAbort(recips, mid, ag, acc) ==
  IF recips = <<>> THEN [agent |-> ag, dl |-> acc]
  ELSE LET r == Head(recips) IN
       IF ~Contains(agents, r)
       THEN [agent |-> ag, dl |-> Append(acc, NotFound(r))]
       ELSE LET started == receiveMessageStart(ag, r, mid)
            IN deliveriesAbort(Tail(recips), mid, started,
                               Append(acc, Processing(r, ag[r].status,
                                                      started[r].messagesReceived)))

RECURSIVE deliveries(_, _, _, _)
\* recipients.map(async recipientId => ...): every callback runs up to its first
\* await, so receiveMessage is entered for each registered recipient in list order
deliveries(recips, mid, ag, acc) ==
  IF recips = <<>> THEN [agent |-> ag, dl |-> acc]
  ELSE LET r == Head(recips) IN
       IF ~Contains(agents, r)
       THEN deliveries(Tail(recips), mid, ag, Append(acc, NotFound(r)))
       ELSE LET started == receiveMessageStart(ag, r, mid)
            IN deliveries(Tail(recips), mid, started,
                          Append(acc, Processing(r, ag[r].status,
                                                 started[r].messagesReceived)))

Threw(mid) == [msg |-> mid, threw |-> TRUE, dl |-> <<>>]

\* a faulty variant: send that records and counts the envelope before it verifies it
sendRecordsFirst(st, mid) ==
  LET m == st.msgs[mid]
      pushed == Append(st.messageHistory, toJSON(m))
      over == Len(pushed) > maxHistory
      s1 == [st EXCEPT !.messageHistory = IF over THEN Tail(pushed) ELSE pushed,
                       !.metrics.messagesSent = @ + 1]
  IN IF ~verify(m) THEN [s1 EXCEPT !.calls = Append(@, Threw(mid))]
     ELSE LET d == deliveries(ResolveRecipients(m), mid, s1.agent, <<>>)
          IN [s1 EXCEPT !.agent = d.agent,
                        !.calls = Append(@, [msg |-> mid, threw |-> FALSE, dl |-> d.dl])]

\* a faulty variant: send that drops the newest entry when the history overflows
sendDropsNewest(st, mid) ==
  LET m == st.msgs[mid] IN
  IF ~verify(m) THEN [st EXCEPT !.calls = Append(@, Threw(mid))]
  ELSE LET pushed == Append(st.messageHistory, toJSON(m))
           over == Len(pushed) > maxHistory
           d == deliveries(ResolveRecipients(m), mid, st.agent, <<>>)
       IN [st EXCEPT !.messageHistory = IF over THEN st.messageHistory ELSE pushed,
                     !.metrics.messagesSent = @ + 1,
                     !.agent = d.agent,
                     !.calls = Append(@, [msg |-> mid, threw |-> FALSE, dl |-> d.dl])]

send(st, mid) ==
  LET m == st.msgs[mid] IN
  IF ~verify(m) THEN [st EXCEPT !.calls = Append(@, Threw(mid))]
  ELSE LET pushed == Append(st.messageHistory, toJSON(m))
           over == Len(pushed) > maxHistory
           d == deliveries(ResolveRecipients(m), mid, st.agent, <<>>)
       IN [st EXCEPT !.messageHistory = IF over THEN Tail(pushed) ELSE pushed,
                     !.metrics.messagesSent = @ + 1,
                     !.agent = d.agent,
                     !.calls = Append(@, [msg |-> mid, threw |-> FALSE, dl |-> d.dl])]

\* Promise.all(deliveries) has resolved
Settled(c) == \A i \in 1..Len(c.dl) : c.dl[i].st \in {"delivered", "failed"}

\* BaseAgent.send: construct the envelope, count it, hand it to the bus
agentSend(st, a, recipients, type, payload, priority) ==
  LET mid == Len(st.msgs) + 1
      m == NewMessageObject(mid, a, recipients, type, payload, priority, DefaultTtl)
  IN send([st EXCEPT !.msgs = Append(@, m), !.agent[a].messagesSent = @ + 1], mid)

respond(st, a, to, data) ==
  agentSend(st, a, List(<<to>>), "response",
            [inReplyTo |-> CurrentTaskId(st, a), data |-> data], PriorityNormal)

\* a faulty variant: the error envelope goes out with the default priority
sendErrorNormal(st, a, to) ==
  agentSend(st, a, List(<<to>>), "error",
            [inReplyTo |-> CurrentTaskId(st, a), data |-> "error"], PriorityNormal)

sendError(st, a, to) ==
  agentSend(st, a, List(<<to>>), "error",
            [inReplyTo |-> CurrentTaskId(st, a), data |-> "error"], PriorityHigh)

Commit(st) ==
  /\ msgs' = st.msgs
  /\ messageHistory' = st.messageHistory
  /\ metrics' = st.metrics
  /\ agent' = st.agent
  /\ calls' = st.calls

-----------------------------------------------------------------------------
(* The operation of the latest step: its name, the envelope or channel it was  *)
(* called on, and what it returned to its caller                               *)

Op(name, mid, channel, ret) == [op |-> name, mid |-> mid, channel |-> channel, ret |-> ret]

-----------------------------------------------------------------------------
(* Registry and channels of the MessageBus *)

\* MessageBus.subscribe(agentId, channel), for a registered agentId
subscribe(ch, a, channel) ==
  IF channel \in DOMAIN ch
  THEN [ch EXCEPT ![channel] = SetAdd(@, a)]
  ELSE [x \in DOMAIN ch \cup {channel} |-> IF x = channel THEN <<a>> ELSE ch[x]]

\* MessageBus.unsubscribe(agentId, channel), for a registered agentId
unsubscribe(ch, a, channel) ==
  IF channel \in DOMAIN ch THEN [ch EXCEPT ![channel] = Without(@, a)] ELSE ch

\* the channels BaseAgent.initialize subscribes the agent to, registerAgent's included
InitialChannels(a) == {a, "broadcast", Role(a)}

\* BaseAgent.initialize(messageBus) on the registry reg = [agents, subscriptions,
\* channels, agent]: registerAgent, then subscribe to 'broadcast', the id and the role
initialize(reg, a) ==
  [agents |-> SetAdd(reg.agents, a),
   subscriptions |->
     [x \in DOMAIN reg.subscriptions \cup {a} |->
        IF x = a THEN InitialChannels(a) ELSE reg.subscriptions[x]],
   channels |-> subscribe(subscribe(subscribe(reg.channels, a, a), a, "broadcast"),
                          a, Role(a)),
   agent |-> [reg.agent EXCEPT ![a].messageBus = TRUE,
                               ![a].subscriptions = InitialChannels(a)]]

Registry ==
  [agents |-> agents, subscriptions |-> subscriptions, channels |-> channels,
   agent |-> agent]

Initialize(a) ==
  /\ ~agent[a].messageBus
  /\ LET reg == initialize(Registry, a)
     IN /\ agents' = reg.agents
        /\ subscriptions' = reg.subscriptions
        /\ channels' = reg.channels
        /\ agent' = reg.agent
  /\ last' = Op("initialize", 0, a, "")
  /\ UNCHANGED <<now, msgs, messageHistory, maxHistory, metrics, calls, swarmVars>>

RECURSIVE unsubscribeAll(_, _, _)
unsubscribeAll(ch, a, chans) ==
  IF chans = {} THEN ch
  ELSE LET c == CHOOSE x \in chans : TRUE
       IN unsubscribeAll(unsubscribe(ch, a, c), a, chans \ {c})

\* MessageBus.unregisterAgent(agentId)
unregisterAgent(a) ==
  IF Contains(agents, a)
  THEN /\ channels' = unsubscribeAll(channels, a, subscriptions[a])
       /\ agents' = Without(agents, a)
       /\ subscriptions' = [x \in DOMAIN subscriptions \ {a} |-> subscriptions[x]]
  ELSE UNCHANGED <<channels, agents, subscriptions>>

\* BaseAgent.shutdown()
Shutdown(a) ==
  /\ agent[a].messageBus
  /\ agent[a].status # "offline"
  /\ agent' = [agent EXCEPT ![a].status = "offline"]
  /\ unregisterAgent(a)
  /\ last' = Op("shutdown", 0, a, "")
  /\ UNCHANGED <<now, msgs, messageHistory, maxHistory, metrics, calls, swarmVars>>

-----------------------------------------------------------------------------
(* Envelopes made and sent by callers outside the agents *)

Sent(mid) == \E c \in 1..Len(calls) : calls[c].msg = mid

\* new Message({sender, recipients, type, payload, ttl})
NewMessage(sender, recipients, type, data, ttl, max) ==
  /\ Len(msgs) < max
  /\ msgs' = Append(msgs, NewMessageObject(Len(msgs) + 1, sender, recipients, type,
                                           [inReplyTo |-> 0, data |-> data],
                                           PriorityNormal, ttl))
  /\ last' = Op("new", Len(msgs) + 1, "", "")
  /\ UNCHANGED <<now, agents, subscriptions, channels, messageHistory, maxHistory,
                 metrics, agent, calls, swarmVars>>

\* an assignment to a field of a Message object
SetField(m, field, v) ==
  CASE field = "id" -> [m EXCEPT !.id = v]
    [] field = "timestamp" -> [m EXCEPT !.timestamp = v]
    [] field = "sender" -> [m EXCEPT !.sender = v]
    [] field = "type" -> [m EXCEPT !.type = v]
    [] field = "data" -> [m EXCEPT !.payload.data = v]
    [] field = "recipients" -> [m EXCEPT !.recipients = v]
    [] field = "priority" -> [m EXCEPT !.priority = v]
    [] field = "ttl" -> [m EXCEPT !.ttl = v]

\* a caller changes a field of an envelope it has constructed and not yet sent
Tamper(mid, field, v) ==
  /\ mid \in 1..Len(msgs)
  /\ ~Sent(mid)
  /\ SetField(msgs[mid], field, v) # msgs[mid]
  /\ msgs' = [msgs EXCEPT ![mid] = SetField(@, field, v)]
  /\ last' = Op("set", mid, field, "")
  /\ UNCHANGED <<now, agents, subscriptions, channels, messageHistory, maxHistory,
                 metrics, agent, calls, swarmVars>>

\* what a send call gives its caller at once: it raises, or a pending promise
SendRet(st) == IF st.calls[Len(st.calls)].threw THEN "raised" ELSE "pending"

\* messageBus.send(message) called on an envelope object by an outside caller
BusSend(mid) ==
  /\ mid \in 1..Len(msgs)
  /\ ~Sent(mid)
  /\ LET s == send(State, mid)
     IN Commit(s) /\ last' = Op("send", mid, "", SendRet(s))
  /\ UNCHANGED <<now, agents, subscriptions, channels, maxHistory, swarmVars>>

-----------------------------------------------------------------------------
(* Resumptions of BaseAgent.receiveMessage and of the delivery that awaits it *)

\* a faulty variant: only a query is answered
ReplyingToQuery == {"query"}

\* a faulty variant: a query is not answered
ReplyingToCommand == {"delegate", "command"}

Replying == {"query", "delegate", "command"}

SetDelivery(st, c, i, d) == [st EXCEPT !.calls[c].dl[i] = d]

\* the bus's continuation after receiveMessage returned
Delivered(st, c, i) ==
  [st EXCEPT !.calls[c].dl[i].st = "delivered", !.metrics.messagesReceived = @ + 1]

\* the bus's continuation after receiveMessage raised
Failed(st, c, i) ==
  [st EXCEPT !.calls[c].dl[i].st = "failed", !.calls[c].dl[i].reason = "error"]

\* processMessage returned: update the metrics, and either respond (and wait for the
\* nested send) or return through the finally block
processReturned(st, c, i) ==
  LET d == [st.calls[c].dl[i] EXCEPT !.outcome = "returned"]
      a == d.recipientId
      m == st.msgs[st.calls[c].msg]
      s1 == [st EXCEPT !.agent = updateMetrics(@, a, TRUE)]
  IN IF m.type \in Replying
     THEN LET s2 == respond(s1, a, m.sender, "result")
          IN SetDelivery(s2, c, i, [d EXCEPT !.st = "responding", !.child = Len(s2.calls)])
     ELSE Delivered(SetDelivery([s1 EXCEPT !.agent = receiveMessageFinally(@, a, d.prev)],
                                c, i, d), c, i)

\* processMessage raised: update the metrics, send the error envelope and wait for it
processRaised(st, c, i) ==
  LET d == [st.calls[c].dl[i] EXCEPT !.outcome = "raised"]
      a == d.recipientId
      m == st.msgs[st.calls[c].msg]
      s1 == [st EXCEPT !.agent = updateMetrics(@, a, FALSE)]
      s2 == sendError(s1, a, m.sender)
  IN SetDelivery(s2, c, i, [d EXCEPT !.st = "erroring", !.child = Len(s2.calls)])

NeedsEnvelope(c, i, ok) ==
  ~ok \/ msgs[calls[c].msg].type \in Replying

\* max bounds the envelopes of a behaviour: a resumption that has to construct one
\* more is left pending
ProcessReturn(c, i, ok, max) ==
  /\ c \in 1..Len(calls)
  /\ i \in 1..Len(calls[c].dl)
  /\ calls[c].dl[i].st = "processing"
  /\ NeedsEnvelope(c, i, ok) => Len(msgs) < max
  /\ Commit(IF ok THEN processReturned(State, c, i) ELSE processRaised(State, c, i))
  /\ last' = Op("processMessage", calls[c].msg, calls[c].dl[i].recipientId,
                IF ok THEN "returned" ELSE "raised")
  /\ UNCHANGED <<now, agents, subscriptions, channels, maxHistory, swarmVars>>

\* the nested send has resolved: the finally block runs, receiveMessage returns or
\* re-raises, and the bus records the delivery
finishReceive(st, c, i) ==
  LET d == st.calls[c].dl[i]
      s1 == [st EXCEPT !.agent = receiveMessageFinally(@, d.recipientId, d.prev)]
  IN IF d.st = "responding" THEN Delivered(s1, c, i) ELSE Failed(s1, c, i)

FinishReceive(c, i) ==
  /\ c \in 1..Len(calls)
  /\ i \in 1..Len(calls[c].dl)
  /\ calls[c].dl[i].st \in {"responding", "erroring"}
  /\ Settled(calls[calls[c].dl[i].child])
  /\ Commit(finishReceive(State, c, i))
  /\ last' = Op("receiveMessage", calls[c].msg, calls[c].dl[i].recipientId,
                IF calls[c].dl[i].st = "responding" THEN "returned" ELSE "raised")
  /\ UNCHANGED <<now, agents, subscriptions, channels, maxHistory, swarmVars>>

-----------------------------------------------------------------------------
(* MessageBus.broadcast, MessageBus.cleanup, the clock *)

\* a faulty variant: broadcast that builds and sends the envelope whatever the subscribers
BroadcastUnchecked(channel, sender, type, data, max) ==
  /\ Len(msgs) < max
  /\ LET mid == Len(msgs) + 1
         subscribers == IF channel \in DOMAIN channels THEN channels[channel] ELSE <<>>
         m == NewMessageObject(mid, sender, List(subscribers), type,
                               [inReplyTo |-> 0, data |-> data],
                               PriorityNormal, DefaultTtl)
         s == send([State EXCEPT !.msgs = Append(@, m)], mid)
     IN Commit(s) /\ last' = Op("broadcast", mid, channel, SendRet(s))
  /\ UNCHANGED <<now, agents, subscriptions, channels, maxHistory, swarmVars>>

\* messageData carries sender, type and payload (BaseAgent.broadcast,
\* KenyaClawSwarm.broadcast)
Broadcast(channel, sender, type, data, max) ==
  IF channel \notin DOMAIN channels \/ channels[channel] = <<>>
  THEN /\ last' = Op("broadcast", 0, channel, "no_subscribers")
       /\ UNCHANGED <<now, msgs, agents, subscriptions, channels, messageHistory,
                      maxHistory, metrics, agent, calls, swarmVars>>
  ELSE /\ Len(msgs) < max
       /\ LET mid == Len(msgs) + 1
              m == NewMessageObject(mid, sender, List(channels[channel]), type,
                                    [inReplyTo |-> 0, data |-> data],
                                    PriorityNormal, DefaultTtl)
              s == send([State EXCEPT !.msgs = Append(@, m)], mid)
          IN Commit(s) /\ last' = Op("broadcast", mid, channel, SendRet(s))
       /\ UNCHANGED <<now, agents, subscriptions, channels, maxHistory, swarmVars>>

\* a faulty variant: an entry counts as expired at the very millisecond its ttl ends
ExpiredAtDeadline(entry, t) == DateParse(entry.timestamp) + entry.ttl * 1000 <= t

Expired(entry, t) == DateParse(entry.timestamp) + entry.ttl * 1000 < t

RECURSIVE Filter(_, _)
\* messageHistory.filter(msg => !expired) at time t
Filter(h, t) ==
  IF h = <<>> THEN <<>>
  ELSE IF Expired(Head(h), t) THEN Filter(Tail(h), t)
  ELSE <<Head(h)>> \o Filter(Tail(h), t)

RECURSIVE CountExpired(_, _)
\* the number of times the filter callback runs this.metrics.messagesExpired++
CountExpired(h, t) ==
  IF h = <<>> THEN 0
  ELSE (IF Expired(Head(h), t) THEN 1 ELSE 0) + CountExpired(Tail(h), t)

\* MessageBus.cleanup()
Cleanup ==
  /\ messageHistory' = Filter(messageHistory, now)
  /\ metrics' = [metrics EXCEPT !.messagesExpired = @ + CountExpired(messageHistory, now)]
  /\ last' = Op("cleanup", 0, "", "")
  /\ UNCHANGED <<now, msgs, agents, subscriptions, channels, maxHistory, agent, calls, swarmVars>>

\* half a second passes
Tick ==
  /\ now + 500 <= MaxHalfSeconds * 500
  /\ now' = now + 500
  /\ last' = Op("tick", 0, "", "")
  /\ UNCHANGED <<msgs, agents, subscriptions, channels, messageHistory, maxHistory,
                 metrics, agent, calls, swarmVars>>

-----------------------------------------------------------------------------
(* Tasks.  A number field holds a number or undefined *)

Num(n) == [num |-> TRUE, n |-> n]
NotNum == [num |-> FALSE, n |-> 0]

Task(type, amount, severity, synthesisType) ==
  [type |-> type, amount |-> amount, severity |-> severity,
   synthesisType |-> synthesisType]

NoTask == Task(Undefined, NotNum, Undefined, Undefined)

\* what a call did: it returned value, or it raised the error named by value
Returned(v) == [done |-> TRUE, raised |-> FALSE, value |-> v]
Raised(e) == [done |-> TRUE, raised |-> TRUE, value |-> e]
NotCalled == [done |-> FALSE, raised |-> FALSE, value |-> ""]

\* no strategy was called from outside the swarm
NoExec == [state |-> "none"]

\* new KenyaClawSwarm(options), as far as the swarm's own fields go
SwarmConstructed ==
  /\ initialized = FALSE
  /\ queries = <<>>
  /\ runs = <<>>
  /\ taskHistory = <<>>
  /\ task = NoTask
  /\ selected = NotCalled
  /\ exec = NoExec

-----------------------------------------------------------------------------
(* The bus after construction, and after the agents in list as were initialised *)

\* new MessageBus(options): this.maxHistory = options.maxHistory || 10000
MaxHistoryOf(option) == IF option = 0 THEN DefaultMaxHistory ELSE option

EmptyRegistry ==
  [agents |-> <<>>, subscriptions |-> [x \in {} |-> {}],
   channels |-> [x \in {} |-> <<>>], agent |-> [a \in Agents |-> NewAgent]]

RECURSIVE initializeAll(_, _)
initializeAll(reg, as) ==
  IF as = <<>> THEN reg ELSE initializeAll(initialize(reg, Head(as)), Tail(as))

BusConstructed(options, as) ==
  /\ now = 0
  /\ msgs = <<>>
  /\ agents = initializeAll(EmptyRegistry, as).agents
  /\ subscriptions = initializeAll(EmptyRegistry, as).subscriptions
  /\ channels = initializeAll(EmptyRegistry, as).channels
  /\ agent = initializeAll(EmptyRegistry, as).agent
  /\ messageHistory = <<>>
  /\ maxHistory \in {MaxHistoryOf(o) : o \in options}
  /\ metrics = [messagesSent |-> 0, messagesReceived |-> 0, messagesExpired |-> 0]
  /\ calls = <<>>
  /\ last = Op("constructor", 0, "", "")

-----------------------------------------------------------------------------
(* Delivery: two initialised agents on a bus of default capacity, envelopes from *)
(* an outside caller and from an agent, addressed to registered and unregistered *)
(* ids, processMessage returning or raising                                      *)

DeliverAgents == <<"doctor", "charon">>

DeliverEnvelopes ==
  { [sender |-> "user", recipients |-> List(<<"doctor", "winston", "charon">>),
     type |-> "query"],
    [sender |-> "doctor", recipients |-> List(<<"doctor", "charon">>), type |-> "query"],
    [sender |-> "user", recipients |-> BroadcastSpec, type |-> "report"],
    [sender |-> "user", recipients |-> Single("charon"), type |-> "report"] }

InitDeliver == BusConstructed({0}, DeliverAgents) /\ SwarmConstructed

NextDeliver ==
  \/ \E e \in DeliverEnvelopes :
       NewMessage(e.sender, e.recipients, e.type, "d", DefaultTtl, MaxExtMsgs)
  \/ \E mid \in 1..Len(msgs) : Tamper(mid, "data", "x")
  \/ \E mid \in 1..Len(msgs) : BusSend(mid)
  \/ \E c \in 1..Len(calls) : \E i \in 1..Len(calls[c].dl), ok \in BOOLEAN :
       ProcessReturn(c, i, ok, MaxDeliverMsgs)
  \/ \E c \in 1..Len(calls) : \E i \in 1..Len(calls[c].dl) : FinishReceive(c, i)

SpecDeliver == InitDeliver /\ [][NextDeliver]_vars

-----------------------------------------------------------------------------
(* Receive: an envelope of any type, from an outside caller or from charon, is  *)
(* sent to doctor, whose processMessage returns or raises                       *)

MaxReceiveExt == 1
MaxReceiveMsgs == 3

ReceiveAgents == <<"doctor", "charon">>
ReceiveSenders == {"user", "charon"}

InitReceive == BusConstructed({0}, ReceiveAgents) /\ SwarmConstructed

NextReceive ==
  \/ \E sender \in ReceiveSenders, type \in MessageTypes :
       NewMessage(sender, Single("doctor"), type, "d", DefaultTtl, MaxReceiveExt)
  \/ \E mid \in 1..Len(msgs) : BusSend(mid)
  \/ \E c \in 1..Len(calls) : \E i \in 1..Len(calls[c].dl), ok \in BOOLEAN :
       ProcessReturn(c, i, ok, MaxReceiveMsgs)
  \/ \E c \in 1..Len(calls) : \E i \in 1..Len(calls[c].dl) : FinishReceive(c, i)

SpecReceive == InitReceive /\ [][NextReceive]_vars

-----------------------------------------------------------------------------
(* History: a bus of small capacity with one agent that is still processing      *)
(* whatever it receives, envelopes of short ttl from an outside caller, channel  *)
(* broadcasts of default ttl, the sweep and the clock                            *)

HistoryAgents == <<"doctor">>
HistoryTtls == {1}

InitHistory == BusConstructed(1..MaxCapacity, HistoryAgents) /\ SwarmConstructed

NextHistory ==
  \/ \E ttl \in HistoryTtls :
       NewMessage("user", Single("doctor"), "report", "d", ttl, MaxHistoryMsgs)
  \/ \E mid \in 1..Len(msgs) : BusSend(mid)
  \/ Broadcast("broadcast", "user", "broadcast", "d", MaxHistoryMsgs)
  \/ Cleanup
  \/ Tick

SpecHistory == InitHistory /\ [][NextHistory]_vars

-----------------------------------------------------------------------------
(* Registry: agents are initialised and shut down while channels are broadcast on *)

RegistryAgents == {"doctor", "charon"}
RegistryChannels == {"broadcast", "COO", "unused"}

InitRegistry == BusConstructed({0}, <<>>) /\ SwarmConstructed

NextRegistry ==
  \/ \E a \in RegistryAgents : Initialize(a)
  \/ \E a \in RegistryAgents : Shutdown(a)
  \/ \E ch \in RegistryChannels : Broadcast(ch, "user", "broadcast", "d", MaxRegistryMsgs)
  \/ \E c \in 1..Len(calls) : \E i \in 1..Len(calls[c].dl), ok \in BOOLEAN :
       ProcessReturn(c, i, ok, MaxRegistryMsgs)
  \/ \E c \in 1..Len(calls) : \E i \in 1..Len(calls[c].dl) : FinishReceive(c, i)

SpecRegistry == InitRegistry /\ [][NextRegistry]_vars

-----------------------------------------------------------------------------
(* Envelope: an outside caller constructs an envelope, assigns to its signed     *)
(* fields and hands it to the bus                                                *)

SignedFields == {"id", "timestamp", "sender", "type", "data"}

EnvelopeSenders == {"user", Null}
EnvelopeData == {"d", Undefined, Null, NaN}

\* the values assigned to a field
EnvelopeValues(field) ==
  CASE field = "id" -> {1, 2}
    [] field = "timestamp" -> {ToISOString(0), ToISOString(1)}
    [] field = "sender" -> {"user", Null, NaN}
    [] field = "type" -> {"report", "status"}
    [] field = "data" -> EnvelopeData

InitEnvelope == BusConstructed({0}, <<>>) /\ SwarmConstructed

NextEnvelope ==
  \/ \E sender \in EnvelopeSenders, data \in EnvelopeData :
       NewMessage(sender, Single("doctor"), "report", data, DefaultTtl, MaxEnvelopes)
  \/ \E mid \in 1..Len(msgs) : \E field \in SignedFields :
       \E v \in EnvelopeValues(field) : Tamper(mid, field, v)
  \/ \E mid \in 1..Len(msgs) : BusSend(mid)

SpecEnvelope == InitEnvelope /\ [][NextEnvelope]_vars

-----------------------------------------------------------------------------
(* SwarmOrchestrator.selectArchitecture *)

\* the names the constructor registers a strategy under
Architectures == {"council", "emergency", "concurrent", "sequential", "competitive"}

\* the keys of the patterns literal
OwnPatterns ==
  {"financial_approval", "system_alert", "customer_inquiry", "strategic_planning",
   "data_processing", "complex_analysis", "default"}

\* what patterns, an object literal, inherits from Object.prototype
ObjectPrototype ==
  {"constructor", "toString", "toLocaleString", "valueOf", "hasOwnProperty",
   "isPrototypeOf", "propertyIsEnumerable", "__proto__"}

\* t.amount > 500, false for an amount that is undefined
GreaterThan(x, n) == x.num /\ x.n > n

\* patterns[key](t) for an own key
Pattern(key, t) ==
  CASE key = "financial_approval" ->
         IF GreaterThan(t.amount, 500) THEN "council" ELSE "sequential"
    [] key = "system_alert" ->
         IF t.severity = "critical" THEN "emergency" ELSE "concurrent"
    [] key = "customer_inquiry" -> "concurrent"
    [] key = "strategic_planning" -> "sequential"
    [] key = "data_processing" -> "concurrent"
    [] key = "complex_analysis" -> "competitive"
    [] key = "default" -> "sequential"

\* selector(task) for an inherited member, called in strict code without a receiver:
\* Object(task) is the task itself, Object.prototype.toString names undefined, the
\* other methods need a receiver, and __proto__ is no function
Inherited(key, t) ==
  CASE key = "constructor" -> Returned("[object Object]")
    [] key = "toString" -> Returned("[object Undefined]")
    [] OTHER -> Raised("TypeError")

selectArchitecture(t) ==
  IF t.type \in OwnPatterns THEN Returned(Pattern(t.type, t))
  ELSE IF t.type \in ObjectPrototype THEN Inherited(t.type, t)
  ELSE Returned(Pattern("default", t))

RouteTypes == OwnPatterns \cup ObjectPrototype \cup {"other", Undefined}
RouteAmounts == {NotNum, Num(0), Num(500), Num(501), Num(2500)}
RouteSeverities == {Undefined, "critical", "high"}

InitRoute ==
  /\ BusConstructed({0}, <<>>)
  /\ initialized = FALSE
  /\ queries = <<>>
  /\ runs = <<>>
  /\ taskHistory = <<>>
  /\ task \in {Task(type, amount, severity, Undefined) :
                 type \in RouteTypes, amount \in RouteAmounts,
                 severity \in RouteSeverities}
  /\ selected = NotCalled
  /\ exec = NoExec

\* orchestrator.selectArchitecture(task)
SelectArchitecture ==
  /\ ~selected.done
  /\ selected' = selectArchitecture(task)
  /\ UNCHANGED <<busVars, initialized, queries, runs, taskHistory, task, exec>>

NextRoute == SelectArchitecture

SpecRoute == InitRoute /\ [][NextRoute]_vars

-----------------------------------------------------------------------------
(* BaseAgent.query *)

DefaultQueryTimeout == 30000

\* The promise query returns.  Its executor sets a timer whose callback rejects the
\* promise, then awaits this.send; no code calls resolve, so a promise is pending
\* or rejected.  run is the submitTask call that awaits it, 0 for another caller.
NewQuery(a, target, timeout, mid, run) ==
  [caller |-> a, target |-> target, timeout |-> timeout, deadline |-> now + timeout,
   msg |-> mid, run |-> run, state |-> "pending"]

\* agent.query(target, q, timeout) up to the await of this.send, on the bus state st
query(st, a, target, timeout) ==
  agentSend(st, a, List(<<target>>), "query", [inReplyTo |-> 0, data |-> "query"],
            PriorityHigh)

\* an agent, or a caller holding it, calls agent.query(target, q, timeout)
Query(a, target, timeout, max) ==
  /\ agent[a].messageBus
  /\ Len(msgs) < max
  /\ Len(queries) < MaxQueries
  /\ Commit(query(State, a, target, timeout))
  /\ queries' = Append(queries, NewQuery(a, target, timeout, Len(msgs) + 1, 0))
  /\ last' = Op("query", Len(msgs) + 1, target, "pending")
  /\ UNCHANGED <<now, agents, subscriptions, channels, maxHistory, initialized, runs,
                 taskHistory, task, selected, exec>>

\* timers fire in the order of their deadlines, and of their creation at one deadline
TimerDue(i) ==
  /\ queries[i].state = "pending"
  /\ \A j \in 1..Len(queries) :
       queries[j].state = "pending" =>
         \/ queries[j].deadline > queries[i].deadline
         \/ queries[j].deadline = queries[i].deadline /\ j >= i

-----------------------------------------------------------------------------
(* JavaScript numbers: IEEE 754 doubles between 0 and 2, kept as the integer    *)
(* value * 2^70 written in limbs of 14 bits, least significant limb first.      *)
(* Every operation computes the exact result and rounds it to 53 significant    *)
(* bits, ties to even.                                                          *)

LimbBits == 14
LimbBase == 2 ^ LimbBits
FractionLimbs == 5
DoubleLimbs == FractionLimbs + 1
Precision == 53

\* bit j of the number x
Bit(x, j) == (x[(j \div LimbBits) + 1] \div (2 ^ (j % LimbBits))) % 2

\* the position of the highest set bit of x, -1 when x is 0
TopBit(x) ==
  IF \A i \in 1..Len(x) : x[i] = 0 THEN -1
  ELSE LET i == CHOOSE i \in 1..Len(x) : x[i] # 0 /\ \A j \in (i + 1)..Len(x) : x[j] = 0
           b == CHOOSE b \in 0..(LimbBits - 1) : 2 ^ b <= x[i] /\ x[i] < 2 ^ (b + 1)
       IN LimbBits * (i - 1) + b

\* x with the bits below d cleared
Truncate(x, d) ==
  SubSeq([i \in 1..Len(x) |->
            IF LimbBits * i <= d THEN 0
            ELSE IF LimbBits * (i - 1) >= d THEN x[i]
            ELSE x[i] - (x[i] % (2 ^ (d - LimbBits * (i - 1))))], 1, Len(x))

\* the number 2^d in as many limbs as x
PowerOfTwo(x, d) ==
  [i \in 1..Len(x) |-> IF i = (d \div LimbBits) + 1 THEN 2 ^ (d % LimbBits) ELSE 0]

RECURSIVE AddFrom(_, _, _, _)
\* the limbs i and above of x + y, carry coming in from the limbs below
AddFrom(x, y, i, carry) ==
  IF i > Len(x) THEN <<>>
  ELSE <<(x[i] + y[i] + carry) % LimbBase>>
       \o AddFrom(x, y, i + 1, (x[i] + y[i] + carry) \div LimbBase)

AddLimbs(x, y) == AddFrom(x, y, 1, 0)

RECURSIVE Column(_, _, _, _)
\* the sum of the products x[i] * y[r + 1 - i] for i from 1 to n
Column(x, y, r, n) ==
  IF n = 0 THEN 0
  ELSE Column(x, y, r, n - 1)
       + (IF r + 1 - n \in 1..Len(y) THEN x[n] * y[r + 1 - n] ELSE 0)

RECURSIVE MulFrom(_, _, _, _)
\* the limbs r and above of x * y, carry coming in from the limbs below
MulFrom(x, y, r, carry) ==
  IF r > Len(x) + Len(y) THEN <<>>
  ELSE <<(Column(x, y, r, Len(x)) + carry) % LimbBase>>
       \o MulFrom(x, y, r + 1, (Column(x, y, r, Len(x)) + carry) \div LimbBase)

MulLimbs(x, y) == MulFrom(x, y, 1, 0)

\* x rounded to Precision significant bits, ties to even; inexact: x stands for a
\* value slightly above it
Round(x, inexact) ==
  LET d == TopBit(x) + 1 - Precision IN
  IF d <= 0 THEN x
  ELSE LET half == Bit(x, d - 1) = 1
           above == inexact \/ \E j \in 0..(d - 2) : Bit(x, j) = 1
           odd == Bit(x, d) = 1
       IN IF half /\ (above \/ odd) THEN AddLimbs(Truncate(x, d), PowerOfTwo(x, d))
          ELSE Truncate(x, d)

RECURSIVE DivFrom(_, _, _, _)
\* the limbs 1 to i of x divided by the small number m, rem being the remainder
\* of the limbs above; the remainder of the whole division comes first
DivFrom(x, m, i, rem) ==
  IF i = 0 THEN <<rem>>
  ELSE DivFrom(x, m, i - 1, (rem * LimbBase + x[i]) % m)
       \o <<(rem * LimbBase + x[i]) \div m>>

\* the double nearest to n / m, for small integers 0 <= n <= m, 0 < m; it is what
\* the division n / m gives, and what a literal such as 0.3 (3 / 10) denotes
Double(n, m) ==
  LET x == [i \in 1..DoubleLimbs |-> IF i = DoubleLimbs THEN n ELSE 0]
      q == DivFrom(x, m, DoubleLimbs, 0)
  IN Round(Tail(q), Head(q) # 0)

\* the literals 0, 1.0, 0.1, 0.2, 0.3, 0.4 and 0.8
Zero == Double(0, 1)
One == Double(1, 1)
PointOne == Double(1, 10)
PointTwo == Double(1, 5)
PointThree == Double(3, 10)
PointFour == Double(2, 5)
PointEight == Double(4, 5)

\* 0 / 0, and every sum and product it enters
NotANumber == <<>>

\* n / m
Quotient(n, m) == IF m = 0 THEN NotANumber ELSE Double(n, m)

Plus(x, y) == IF x = NotANumber \/ y = NotANumber THEN NotANumber
              ELSE Round(AddLimbs(x, y), FALSE)

Times(x, y) ==
  IF x = NotANumber \/ y = NotANumber THEN NotANumber
  ELSE LET p == Round(MulLimbs(x, y), FALSE)
       IN SubSeq(p, FractionLimbs + 1, FractionLimbs + DoubleLimbs)

\* x > y
DoubleGreater(x, y) ==
  /\ x # NotANumber
  /\ y # NotANumber
  /\ \E i \in 1..DoubleLimbs : x[i] > y[i] /\ \A j \in (i + 1)..DoubleLimbs : x[j] = y[j]

-----------------------------------------------------------------------------
(* SwarmOrchestrator.selectAgents.  A task may carry requiredSkills and       *)
(* preferredRole; a task record without the field has the property undefined. *)

Orchestrator == "winston"

\* agent.metrics.successRate as updateMetrics leaves it, 1.0 before any task
SuccessRate(ag) ==
  IF ag.tasksCompleted + ag.tasksFailed = 0 THEN One
  ELSE Quotient(ag.tasksCompleted, ag.tasksCompleted + ag.tasksFailed)

\* x || y
OrElse(x, y) == IF x = NotANumber \/ x = Zero THEN y ELSE x

\* (agent.metrics?.successRate || 0.8) * 0.2
successTerm(ag) == Times(OrElse(SuccessRate(ag), PointEight), PointTwo)

calculateAgentScore(st, a, t) ==
  LET matchingSkills ==
        Len(SelectSeq(Skills(a), LAMBDA s : Contains(t.requiredSkills, s)))
      skill == IF "requiredSkills" \in DOMAIN t
               THEN Plus(Zero, Times(Quotient(matchingSkills, Len(t.requiredSkills)),
                                     PointFour))
               ELSE Plus(Zero, PointTwo)
      availability ==
        Plus(skill, IF st.agent[a].status = "idle" THEN PointThree ELSE PointOne)
      history ==
        Plus(availability, successTerm(st.agent[a]))
  IN IF "preferredRole" \in DOMAIN t /\ Role(a) = t.preferredRole
     THEN Plus(history, PointOne)
     ELSE history

\* s.score > 0.3
Qualified(score) == DoubleGreater(score, PointThree)

\* b.score - a.score > 0: b goes before a
ScoreGreater(b, a) == DoubleGreater(b, a)

RECURSIVE InsertByScore(_, _, _)
\* x goes after every element whose score is not smaller than its own
InsertByScore(sorted, x, score) ==
  IF sorted = <<>> THEN <<x>>
  ELSE IF ScoreGreater(score[x], score[Head(sorted)]) THEN <<x>> \o sorted
  ELSE <<Head(sorted)>> \o InsertByScore(Tail(sorted), x, score)

RECURSIVE SortByScore(_, _, _)
\* qualifiedAgents.sort((a, b) => b.score - a.score), a stable sort
SortByScore(s, score, acc) ==
  IF s = <<>> THEN acc ELSE SortByScore(Tail(s), score, InsertByScore(acc, Head(s), score))

Take(s, n) == SubSeq(s, 1, IF Len(s) < n THEN Len(s) ELSE n)

RECURSIVE DiversePass(_, _, _, _)
DiversePass(s, sel, roles, count) ==
  IF s = <<>> \/ Len(sel) >= count THEN sel
  ELSE IF Role(Head(s)) \notin roles
       THEN DiversePass(Tail(s), Append(sel, Head(s)), roles \cup {Role(Head(s))}, count)
       ELSE DiversePass(Tail(s), sel, roles, count)

RECURSIVE FillPass(_, _, _)
FillPass(s, sel, count) ==
  IF s = <<>> \/ Len(sel) >= count THEN sel
  ELSE IF ~Contains(sel, Head(s)) THEN FillPass(Tail(s), Append(sel, Head(s)), count)
  ELSE FillPass(Tail(s), sel, count)

\* a faulty variant: the best agents whatever their roles
selectTopAgents(scoredAgents, count) == Take(scoredAgents, count)

selectDiverseAgents(scoredAgents, count) ==
  FillPass(scoredAgents, DiversePass(scoredAgents, <<>>, {}, count), count)

roleOrder == <<"CFO", "CTO", "COO", "CCO">>

RECURSIVE RolePass(_, _, _)
RolePass(roles, scoredAgents, ordered) ==
  IF roles = <<>> THEN ordered
  ELSE LET found == SelectSeq(scoredAgents, LAMBDA a : Role(a) = Head(roles))
       IN RolePass(Tail(roles), scoredAgents,
                   IF found = <<>> THEN ordered ELSE Append(ordered, Head(found)))

orderByDependencies(scoredAgents) ==
  FillPass(scoredAgents, RolePass(roleOrder, scoredAgents, <<>>), Len(scoredAgents))

RECURSIVE Scores(_, _, _)
\* allAgents.map(agentStatus => this.calculateAgentScore(agent, task))
Scores(st, as, t) ==
  IF as = <<>> THEN <<>>
  ELSE <<calculateAgentScore(st, Head(as), t)>> \o Scores(st, Tail(as), t)

\* scoredAgents.filter(s => s.score > 0.3).sort((a, b) => b.score - a.score)
qualifiedAgents(scored, scores) ==
  LET score == [a \in Range(scored) |->
                  scores[CHOOSE i \in 1..Len(scored) : scored[i] = a]]
  IN SortByScore(SelectSeq(scored, LAMBDA a : Qualified(score[a])), score, <<>>)

\* switch (architecture)
selectFor(architecture, qualified) ==
  CASE architecture = "council" -> selectDiverseAgents(qualified, 3)
    [] architecture = "emergency" -> Take(qualified, 1)
    [] architecture = "concurrent" -> Take(qualified, 3)
    [] architecture = "sequential" -> orderByDependencies(qualified)
    [] architecture = "competitive" -> selectDiverseAgents(qualified, 3)
    [] OTHER -> Take(qualified, 1)

allAgents == SelectSeq(agents, LAMBDA a : a # Orchestrator)

selectAgents(st, t, architecture) ==
  selectFor(architecture, qualifiedAgents(allAgents, Scores(st, allAgents, t)))

-----------------------------------------------------------------------------
(* The strategies and routeTask.  w is what a submitTask call works on:        *)
(* [st, queries, runs, taskHistory], st being the bus state a send works on.   *)
(* As no query promise is ever resolved, what a strategy does with a reply is  *)
(* code that never runs; a strategy is its calls of query and what it does     *)
(* when they are rejected.                                                     *)

CouncilTimeout == 10000
EmergencyTimeout == 5000
ConcurrentTimeout == 30000
SequentialTimeout == 30000
CompetitiveTimeout == 60000

World ==
  [st |-> State, queries |-> queries, runs |-> runs, taskHistory |-> taskHistory]

NewRun(t) ==
  [task |-> t, architecture |-> "", agents |-> <<>>, queries |-> <<>>,
   state |-> "running", status |-> "", error |-> ""]

\* agent.query(agent.id, ..., timeout), called for the run r
startQuery(w, r, a, timeout) ==
  [w EXCEPT !.st = query(w.st, a, a, timeout),
            !.queries = Append(@, NewQuery(a, a, timeout, Len(w.st.msgs) + 1, r)),
            !.runs[r].queries = Append(@, Len(w.queries) + 1)]

RECURSIVE startQueries(_, _, _, _)
\* agents.map(agent => ... agent.query(agent.id, ..., timeout))
startQueries(w, r, as, timeout) ==
  IF as = <<>> THEN w
  ELSE startQueries(startQuery(w, r, Head(as), timeout), r, Tail(as), timeout)

\* the end of routeTask: the result is recorded and returned to submitTask's caller
returnResult(w, r, status, time) ==
  [w EXCEPT !.runs[r].state = "returned",
            !.runs[r].status = status,
            !.taskHistory =
               Append(@, [id |-> r, type |-> w.runs[r].task.type,
                          architecture |-> w.runs[r].architecture,
                          agents |-> w.runs[r].agents, result |-> status,
                          timestamp |-> ToISOString(time)])]

\* an exception leaves execute, routeTask and submitTask
raise(w, r, error) ==
  [w EXCEPT !.runs[r].state = "raised", !.runs[r].error = error]

\* What an agent's query settled with: the promise was fulfilled with a reply object
\* or rejected.  The fields of a reply are those the strategies read.
Reply(vote, quality, confidence, data) ==
  [vote |-> vote, quality |-> quality, confidence |-> confidence, data |-> data]

NoReply == Reply(Undefined, NotNum, NotNum, Undefined)

Fulfilled(reply) == [fulfilled |-> TRUE, reply |-> reply]
Rejected == [fulfilled |-> FALSE, reply |-> NoReply]

\* a faulty variant: the vote is read without the default and without the catch block
gatherVoteUncaught(outcome) == outcome.reply.vote

\* gatherVote: deliberation.vote || 'abstain', and the catch block for a rejection
gatherVote(outcome) ==
  IF outcome.fulfilled /\ outcome.reply.vote # Undefined THEN outcome.reply.vote
  ELSE "abstain"

\* votes.filter(v => v.vote === 'approve').length
Approvals(votes) == Cardinality({i \in 1..Len(votes) : votes[i] = "approve"})

\* approvals / total, a number unless both are 0, when the quotient is NaN
Consensus(votes) ==
  [nan |-> Len(votes) = 0, num |-> Approvals(votes), den |-> Len(votes)]

\* CouncilArchitecture.execute after Promise.all: approvals / total >= 0.66, which
\* is false for the NaN of an empty council
councilStatus(votes) ==
  LET approvals == Approvals(votes)
      total == Len(votes)
  IN IF total > 0 /\ approvals * 100 >= 66 * total THEN "approved" ELSE "rejected"

\* CouncilArchitecture.execute from Promise.all on: what it returns for the outcomes
\* of the agents' queries, in the order of the agents
councilExecute(outcomes) ==
  LET votes == [i \in 1..Len(outcomes) |-> gatherVote(outcomes[i])]
  IN [status |-> councilStatus(votes), consensus |-> Consensus(votes), votes |-> votes]

\* a.confidence > b.confidence, false when either is undefined
Greater(a, b) == a.num /\ b.num /\ a.n > b.n

RECURSIVE Best(_, _)
\* results.reduce((best, current) => current.confidence > best.confidence ? current : best)
Best(best, rest) ==
  IF rest = <<>> THEN best
  ELSE Best(IF Greater(Head(rest).confidence, best.confidence) THEN Head(rest) ELSE best,
            Tail(rest))

\* ConcurrentArchitecture.synthesizeResults: reduce without an initial value raises
\* a TypeError on an empty array; results[0] of an empty array is undefined
synthesizeResults(results, t) ==
  CASE t.synthesisType = "best" ->
         IF results = <<>> THEN Raised("TypeError")
         ELSE Returned([defined |-> TRUE, reply |-> Best(Head(results), Tail(results)),
                        data |-> <<>>])
    [] t.synthesisType = "merge" ->
         Returned([defined |-> TRUE, reply |-> NoReply,
                   data |-> [i \in 1..Len(results) |-> results[i].data]])
    [] OTHER ->
         Returned([defined |-> results # <<>>,
                   reply |-> IF results = <<>> THEN NoReply ELSE results[1],
                   data |-> <<>>])

\* a faulty variant: the status tells whether any branch was fulfilled
concurrentStatusAnySuccess(successful, failed) ==
  IF Len(successful) > 0 THEN "success" ELSE "partial"

\* failed.length === 0 ? 'success' : 'partial'
concurrentStatus(successful, failed) ==
  IF Len(failed) = 0 THEN "success" ELSE "partial"

\* ConcurrentArchitecture.execute from Promise.allSettled on, for the outcomes of the
\* agents' queries in the order of the agents
concurrentExecute(t, outcomes) ==
  LET fulfilled == SelectSeq([i \in 1..Len(outcomes) |-> i], LAMBDA i : outcomes[i].fulfilled)
      rejected_ == SelectSeq([i \in 1..Len(outcomes) |-> i], LAMBDA i : ~outcomes[i].fulfilled)
      successful == [k \in 1..Len(fulfilled) |-> outcomes[fulfilled[k]].reply]
      failed == [k \in 1..Len(rejected_) |-> rejected_[k]]
      synthesis == synthesizeResults(successful, t)
  IN IF synthesis.raised THEN synthesis
     ELSE Returned([status |-> concurrentStatus(successful, failed),
                    results |-> successful, failures |-> failed,
                    synthesis |-> synthesis.value,
                    agents |-> [i \in 1..Len(outcomes) |-> i]])

MaxExpectedTime == 30000

\* (x || 0.5) in hundredths: undefined and 0 give 0.5
OrHalf(x) == IF x.num /\ x.n # 0 THEN x.n ELSE 50

\* CompetitiveArchitecture.evaluateResult.  Qualities and confidences are kept in
\* hundredths and the score is kept exact, as score * 100 * MaxExpectedTime * 10:
\* quality * 0.6 + max(0, 1 - executionTime / 30000) * 0.3 + confidence * 0.1
evaluateResult(result) ==
  LET speed == IF MaxExpectedTime - result.executionTime > 0
               THEN MaxExpectedTime - result.executionTime ELSE 0
  IN OrHalf(result.result.quality) * 6 * MaxExpectedTime
       + speed * 3 * 100
       + OrHalf(result.result.confidence) * MaxExpectedTime

RECURSIVE WinnerLast(_, _)
\* a faulty variant: a later result of the same score replaces the best
WinnerLast(best, rest) ==
  IF rest = <<>> THEN best
  ELSE WinnerLast(IF Head(rest).score >= best.score THEN Head(rest) ELSE best, Tail(rest))

RECURSIVE Winner(_, _)
\* scored.reduce((best, current) => current.score > best.score ? current : best)
Winner(best, rest) ==
  IF rest = <<>> THEN best
  ELSE Winner(IF Head(rest).score > best.score THEN Head(rest) ELSE best, Tail(rest))

\* CompetitiveArchitecture.execute after Promise.all was fulfilled: outcomes are all
\* fulfilled, elapsed[i] is the executionTime compete measured for agent i
competitiveExecute(outcomes, elapsed) ==
  LET results == [i \in 1..Len(outcomes) |->
                    [agent |-> i, result |-> outcomes[i].reply, executionTime |-> elapsed[i]]]
      scored == [i \in 1..Len(results) |->
                   [agent |-> i, result |-> results[i].result,
                    executionTime |-> results[i].executionTime,
                    score |-> evaluateResult(results[i])]]
  IN IF scored = <<>> THEN Raised("TypeError")
     ELSE Returned([status |-> "completed", winner |-> Winner(Head(scored), Tail(scored)),
                    allResults |-> scored])

\* ConcurrentArchitecture.execute after Promise.allSettled, with the numbers of
\* fulfilled and rejected queries: synthesizeResults reduces an empty array for 'best'
concurrentFinish(w, r, successful, failed, time) ==
  IF w.runs[r].task.synthesisType = "best" /\ successful = 0 THEN raise(w, r, "TypeError")
  ELSE returnResult(w, r, IF failed = 0 THEN "success" ELSE "partial", time)

\* architecture.execute(task, agents) up to its first await
execute(w, r, architecture, as) ==
  CASE architecture = "council" ->
         IF as = <<>> THEN returnResult(w, r, councilStatus(<<>>), now)
         ELSE startQueries(w, r, as, CouncilTimeout)
    [] architecture = "emergency" ->
         IF as = <<>> THEN raise(w, r, "TypeError")
         ELSE startQuery(w, r, as[1], EmergencyTimeout)
    [] architecture = "concurrent" ->
         IF as = <<>> THEN concurrentFinish(w, r, 0, 0, now)
         ELSE startQueries(w, r, as, ConcurrentTimeout)
    [] architecture = "sequential" ->
         IF as = <<>> THEN returnResult(w, r, "completed", now)
         ELSE startQuery(w, r, as[1], SequentialTimeout)
    [] architecture = "competitive" ->
         IF as = <<>> THEN raise(w, r, "TypeError")
         ELSE startQueries(w, r, as, CompetitiveTimeout)

routeTask(w, r, t) ==
  LET architectureName == selectArchitecture(t) IN
  IF architectureName.raised THEN raise(w, r, architectureName.value)
  ELSE IF architectureName.value \notin Architectures
       THEN raise(w, r, "Unknown architecture")
  ELSE CHOOSE after \in
         {execute([w EXCEPT !.runs[r].architecture = architectureName.value,
                            !.runs[r].agents = as],
                  r, architectureName.value, as) :
            as \in {selectAgents(w.st, t, architectureName.value)}} : TRUE

submitTask(w, r, t) ==
  IF ~initialized THEN raise(w, r, "Swarm not initialized") ELSE routeTask(w, r, t)

\* swarm.submitTask(task) up to the first await of a query
SubmitTask(t, max) ==
  /\ Len(runs) < MaxTasks
  /\ LET r == Len(runs) + 1
         w == submitTask([World EXCEPT !.runs = Append(@, NewRun(t))], r, t)
     IN /\ Len(w.st.msgs) <= max
        /\ Commit(w.st)
        /\ queries' = w.queries
        /\ runs' = w.runs
        /\ taskHistory' = w.taskHistory
        /\ last' = Op("submitTask", r, t.type, w.runs[r].state)
  /\ UNCHANGED <<now, agents, subscriptions, channels, maxHistory, initialized, task,
                 selected, exec>>

\* the strategy's continuation after the query of run r was rejected at time
rejected(w, r, time) ==
  LET run == w.runs[r]
      settled == \A i \in 1..Len(run.queries) : w.queries[run.queries[i]].state = "rejected"
      votes == [i \in 1..Len(run.queries) |-> gatherVote(Rejected)]
  IN IF run.state # "running" THEN w
     ELSE CASE run.architecture = "council" ->
                 IF settled THEN returnResult(w, r, councilStatus(votes), time) ELSE w
            [] run.architecture = "concurrent" ->
                 IF settled THEN concurrentFinish(w, r, 0, Len(run.queries), time) ELSE w
            [] OTHER -> raise(w, r, "timeout")

\* the timer of query i fires: the promise is rejected and whoever awaits it goes on
QueryTimeout(i) ==
  /\ i \in 1..Len(queries)
  /\ TimerDue(i)
  /\ now' = IF queries[i].deadline > now THEN queries[i].deadline ELSE now
  /\ LET w0 == [World EXCEPT !.queries[i].state = "rejected"]
         w == IF queries[i].run = 0 THEN w0 ELSE rejected(w0, queries[i].run, now')
     IN /\ queries' = w.queries
        /\ runs' = w.runs
        /\ taskHistory' = w.taskHistory
  /\ last' = Op("timeout", queries[i].msg, queries[i].target, "rejected")
  /\ UNCHANGED <<msgs, agents, subscriptions, channels, messageHistory, maxHistory,
                 metrics, agent, calls, initialized, task, selected, exec>>

-----------------------------------------------------------------------------
(* A strategy's execute(task, agents) called with agents of the caller's making, *)
(* objects with an id and a query method.  Agent i is the i-th of the list; its  *)
(* query settles elapsed[i] ms after the call, with outcomes[i].                 *)

\* the input a pipeline step is given: the task, or the reply of the step before
TaskInput == [isTask |-> TRUE, reply |-> NoReply]
ReplyInput(reply) == [isTask |-> FALSE, reply |-> reply]

\* a call of agent.query by a strategy
Invocation(i, input, step) == [agent |-> i, input |-> input, step |-> step]

\* a call of execute(task, agents) that has not run yet
Called(architecture, t, outcomes, elapsed) ==
  [state |-> "called", architecture |-> architecture, task |-> t,
   agents |-> [i \in 1..Len(outcomes) |-> i], outcomes |-> outcomes,
   elapsed |-> elapsed, invoked |-> <<>>, settled |-> {}, trace |-> <<>>,
   result |-> [status |-> ""], error |-> ""]

\* execute returns or raises
settleWith(ex, r) ==
  IF r.raised THEN [ex EXCEPT !.state = "raised", !.error = r.value]
  ELSE [ex EXCEPT !.state = "returned", !.result = r.value]

\* a faulty variant: every step is given the task
currentInputTask(trace) == TaskInput

\* SequentialArchitecture.execute: currentInput, given the trace so far
currentInput(trace) ==
  IF trace = <<>> THEN TaskInput ELSE ReplyInput(trace[Len(trace)].output)

\* SequentialArchitecture.execute: the return after the loop
sequentialResult(trace) ==
  [status |-> "completed", finalResult |-> currentInput(trace), trace |-> trace,
   steps |-> Len(trace)]

\* the continuation of Promise.all / Promise.allSettled once it is fulfilled
finishAll(ex) ==
  CASE ex.architecture = "council" -> settleWith(ex, Returned(councilExecute(ex.outcomes)))
    [] ex.architecture = "concurrent" -> settleWith(ex, concurrentExecute(ex.task, ex.outcomes))
    [] ex.architecture = "competitive" ->
         settleWith(ex, competitiveExecute(ex.outcomes, ex.elapsed))

\* execute(task, agents) up to its first await of a query
executeStart(ex) ==
  LET n == Len(ex.agents) IN
  IF ex.architecture = "sequential"
  THEN IF n = 0 THEN settleWith(ex, Returned(sequentialResult(<<>>)))
       ELSE [ex EXCEPT !.state = "running",
                       !.invoked = <<Invocation(1, currentInput(<<>>), 1)>>]
  ELSE LET started == [ex EXCEPT !.state = "running",
                                 !.invoked = [i \in 1..n |-> Invocation(i, TaskInput, 0)]]
       IN IF n = 0 THEN finishAll(started) ELSE started

\* the query of agent i settles and the strategy goes on from its await
settle(ex, i) ==
  LET ex1 == [ex EXCEPT !.settled = @ \cup {i}]
      all == ex1.settled = 1..Len(ex.agents)
      trace == Append(ex.trace, [agent |-> i, input |-> currentInput(ex.trace),
                                 output |-> ex.outcomes[i].reply])
  IN IF ex.state # "running" THEN ex1
     ELSE CASE ex.architecture \in {"council", "concurrent"} ->
                 IF all THEN finishAll(ex1) ELSE ex1
            [] ex.architecture = "competitive" ->
                 IF ~ex.outcomes[i].fulfilled THEN settleWith(ex1, Raised("rejected"))
                 ELSE IF all THEN finishAll(ex1) ELSE ex1
            [] ex.architecture = "sequential" ->
                 IF ~ex.outcomes[i].fulfilled THEN settleWith(ex1, Raised("rejected"))
                 ELSE IF i = Len(ex.agents)
                      THEN settleWith([ex1 EXCEPT !.trace = trace],
                                      Returned(sequentialResult(trace)))
                      ELSE [ex1 EXCEPT !.trace = trace,
                                       !.invoked = Append(@, Invocation(i + 1, currentInput(trace),
                                                                        Len(trace) + 1))]

\* architecture.execute(task, agents) is called
Execute ==
  /\ exec.state = "called"
  /\ exec' = executeStart(exec)
  /\ UNCHANGED <<busVars, initialized, queries, runs, taskHistory, task, selected>>

\* the agents whose query was called and has not settled
Waiting(ex) == {ex.invoked[k].agent : k \in 1..Len(ex.invoked)} \ ex.settled

\* the query of agent i settles; queries settle in the order of their times
Settle(i) ==
  /\ exec.state # "called"
  /\ i \in Waiting(exec)
  /\ \A j \in Waiting(exec) : exec.elapsed[j] >= exec.elapsed[i]
  /\ exec' = settle(exec, i)
  /\ UNCHANGED <<busVars, initialized, queries, runs, taskHistory, task, selected>>

-----------------------------------------------------------------------------
(* KenyaClawSwarm.initialize *)

SwarmAgents == <<"winston", "john-wick", "adjudicator", "doctor", "charon">>

\* setupChannels(): four channels are written into the bus's table
setupChannels(ch) ==
  [x \in DOMAIN ch \cup {"executive", "operations", "council", "emergency"} |->
     CASE x = "executive" -> <<"winston", "john-wick", "adjudicator">>
       [] x = "operations" -> <<"winston", "doctor", "charon">>
       [] x = "council" -> SwarmAgents
       [] x = "emergency" -> <<"winston", "doctor", "john-wick">>
       [] OTHER -> ch[x]]

SwarmInitialize ==
  /\ ~initialized
  /\ LET reg == initializeAll(Registry, SwarmAgents)
     IN /\ agents' = reg.agents
        /\ subscriptions' = reg.subscriptions
        /\ channels' = setupChannels(reg.channels)
        /\ agent' = reg.agent
  /\ initialized' = TRUE
  /\ last' = Op("initialize", 0, "swarm", "")
  /\ UNCHANGED <<now, msgs, messageHistory, maxHistory, metrics, calls, queries, runs,
                 taskHistory, task, selected, exec>>

-----------------------------------------------------------------------------
(* Query: two initialised agents query each other, themselves and an agent that *)
(* is not registered                                                            *)

QueryAgents == <<"doctor", "charon">>
QueryTargets == {"doctor", "charon", "winston"}

InitQuery == BusConstructed({0}, QueryAgents) /\ SwarmConstructed

NextQuery ==
  \/ \E a \in Range(QueryAgents), target \in QueryTargets :
       Query(a, target, DefaultQueryTimeout, MaxQueryMsgs)
  \/ \E c \in 1..Len(calls) : \E i \in 1..Len(calls[c].dl), ok \in BOOLEAN :
       ProcessReturn(c, i, ok, MaxQueryMsgs)
  \/ \E c \in 1..Len(calls) : \E i \in 1..Len(calls[c].dl) : FinishReceive(c, i)
  \/ \E i \in 1..Len(queries) : QueryTimeout(i)

SpecQuery == InitQuery /\ [][NextQuery]_vars

-----------------------------------------------------------------------------
(* Strategy: a swarm is initialised and given a task for each of the strategies *)

StrategyTasks ==
  { Task("financial_approval", Num(501), Undefined, Undefined),
    Task("system_alert", NotNum, "critical", Undefined),
    Task("customer_inquiry", NotNum, Undefined, Undefined),
    Task("data_processing", NotNum, Undefined, "best"),
    Task("strategic_planning", NotNum, Undefined, Undefined),
    Task("complex_analysis", NotNum, Undefined, Undefined) }

InitStrategy == BusConstructed({0}, <<>>) /\ SwarmConstructed

NextStrategy ==
  \/ SwarmInitialize
  \/ \E t \in StrategyTasks : SubmitTask(t, MaxStrategyMsgs)
  \/ \E c \in 1..Len(calls) : \E i \in 1..Len(calls[c].dl), ok \in BOOLEAN :
       ProcessReturn(c, i, ok, MaxStrategyMsgs)
  \/ \E c \in 1..Len(calls) : \E i \in 1..Len(calls[c].dl) : FinishReceive(c, i)
  \/ \E i \in 1..Len(queries) : QueryTimeout(i)

SpecStrategy == InitStrategy /\ [][NextStrategy]_vars

-----------------------------------------------------------------------------
(* Emergency: a swarm is initialised, agents of it are shut down, then a critical *)
(* system alert is submitted.  The timers fire when they are due and what the   *)
(* bus awaits returns: both are turns of the event loop.                        *)

MaxEmergencyMsgs == 3

EmergencyTask == Task("system_alert", NotNum, "critical", Undefined)

NextEmergency ==
  \/ SwarmInitialize
  \/ \E a \in {"john-wick", "adjudicator"} : runs = <<>> /\ Shutdown(a)
  \/ SubmitTask(EmergencyTask, MaxEmergencyMsgs)
  \/ \E c \in 1..Len(calls) : \E i \in 1..Len(calls[c].dl), ok \in BOOLEAN :
       ProcessReturn(c, i, ok, MaxEmergencyMsgs)
  \/ \E c \in 1..Len(calls) : \E i \in 1..Len(calls[c].dl) : FinishReceive(c, i)
  \/ \E i \in 1..Len(queries) : QueryTimeout(i)

FairEmergency ==
  /\ WF_vars(\E i \in 1..Len(queries) : QueryTimeout(i))
  /\ WF_vars(\E c \in 1..Len(calls) : \E i \in 1..Len(calls[c].dl), ok \in BOOLEAN :
               ProcessReturn(c, i, ok, MaxEmergencyMsgs))
  /\ WF_vars(\E c \in 1..Len(calls) : \E i \in 1..Len(calls[c].dl) : FinishReceive(c, i))

SpecEmergency == InitStrategy /\ [][NextEmergency]_vars /\ FairEmergency

-----------------------------------------------------------------------------
(* Council: CouncilArchitecture.execute is handed agents whose queries settle   *)
(* as the caller's agents make them: every list of up to MaxVoters outcomes,    *)
(* and for the larger councils up to LargeCouncil the lists of approvals and    *)
(* rejections with the approvals first or last                                  *)

MaxVoters == 3
LargeCouncil == 50

Votes == {"approve", "reject", "abstain", Undefined}
VoteOutcomes == {Fulfilled(Reply(v, NotNum, NotNum, Undefined)) : v \in Votes} \cup {Rejected}

Approve == Fulfilled(Reply("approve", NotNum, NotNum, Undefined))
Reject == Fulfilled(Reply("reject", NotNum, NotNum, Undefined))

\* n outcomes of which a are approvals, standing first or last
Block(n, a, first) ==
  [i \in 1..n |-> IF (first /\ i <= a) \/ (~first /\ i > n - a) THEN Approve ELSE Reject]

CouncilOutcomes ==
  UNION {[1..n -> VoteOutcomes] : n \in 0..MaxVoters}
   \cup {Block(n, a, first) : n \in (MaxVoters + 1)..LargeCouncil, a \in 0..LargeCouncil,
                              first \in BOOLEAN}


InitCouncil ==
  /\ BusConstructed({0}, <<>>)
  /\ initialized = FALSE
  /\ queries = <<>>
  /\ runs = <<>>
  /\ taskHistory = <<>>
  /\ task = NoTask
  /\ selected = NotCalled
  /\ exec \in {Called("council", Task("financial_approval", Num(501), Undefined, Undefined), o,
                        [i \in 1..Len(o) |-> 0]) :
                 o \in CouncilOutcomes}

\* execute(task, agents) from the call to the return: every gatherVote settles
CouncilExecute ==
  /\ exec.state = "called"
  /\ exec' = [exec EXCEPT !.state = "returned", !.result = councilExecute(exec.outcomes)]
  /\ UNCHANGED <<busVars, initialized, queries, runs, taskHistory, task, selected>>

NextCouncil == CouncilExecute

SpecCouncil == InitCouncil /\ [][NextCouncil]_vars

-----------------------------------------------------------------------------
(* Execute: each strategy but the emergency one is called with up to           *)
(* MaxExecAgents agents, whose queries are fulfilled or rejected               *)

MaxExecAgents == 3

ExecArchitectures == {"council", "concurrent", "sequential", "competitive"}

ExecTask(architecture, synthesisType) ==
  CASE architecture = "council" -> Task("financial_approval", Num(501), Undefined, Undefined)
    [] architecture = "concurrent" -> Task("data_processing", NotNum, Undefined, synthesisType)
    [] architecture = "sequential" -> Task("strategic_planning", NotNum, Undefined, Undefined)
    [] architecture = "competitive" -> Task("complex_analysis", NotNum, Undefined, Undefined)

SynthesisTypes(architecture) ==
  IF architecture = "concurrent" THEN {"best", "merge", Undefined} ELSE {Undefined}

\* what the agents answer to the strategy's request, or do not
ExecOutcomes(architecture) ==
  CASE architecture = "council" -> VoteOutcomes
    [] architecture = "concurrent" ->
         {Fulfilled(Reply(Undefined, NotNum, c, "d")) : c \in {NotNum, Num(50), Num(90)}}
           \cup {Rejected}
    [] architecture = "sequential" ->
         {Fulfilled(Reply(Undefined, NotNum, NotNum, d)) : d \in {"x", "y"}} \cup {Rejected}
    [] architecture = "competitive" ->
         {Fulfilled(Reply(Undefined, q, NotNum, "d")) : q \in {NotNum, Num(0), Num(100)}}
           \cup {Rejected}

ExecElapsed(architecture) ==
  IF architecture = "competitive" THEN {0, MaxExpectedTime \div 2} ELSE {0}

InitExecute ==
  /\ BusConstructed({0}, <<>>)
  /\ initialized = FALSE
  /\ queries = <<>>
  /\ runs = <<>>
  /\ taskHistory = <<>>
  /\ task = NoTask
  /\ selected = NotCalled
  /\ \E architecture \in ExecArchitectures, n \in 0..MaxExecAgents :
       \E synthesisType \in SynthesisTypes(architecture),
          outcomes \in [1..n -> ExecOutcomes(architecture)],
          elapsed \in [1..n -> ExecElapsed(architecture)] :
         exec = Called(architecture, ExecTask(architecture, synthesisType), outcomes, elapsed)

NextExecute ==
  \/ Execute
  \/ \E i \in 1..Len(exec.agents) : Settle(i)

SpecExecute == InitExecute /\ [][NextExecute]_vars

-----------------------------------------------------------------------------
(* Properties of MessageBus.send, checked under SpecDeliver *)

\* C3: MessageBus.send of an envelope whose verify() is false raises before anything
\* else happens: the history, the bus counters, every agent and the registry are as
\* they were, and the call has no delivery (receiveMessage is invoked for nobody).
C3_UnverifiedSendRaisesFirst ==
  [][(last'.op = "send" /\ ~verify(msgs[last'.mid]))
       => /\ last'.ret = "raised"
          /\ messageHistory' = messageHistory
          /\ metrics' = metrics
          /\ agent' = agent
          /\ UNCHANGED <<agents, subscriptions, channels>>
          /\ Len(calls') = Len(calls) + 1
          /\ calls'[Len(calls')].dl = <<>>]_busVars

\* an unverified envelope was sent to a bus that had already accepted another one
C3_Witness ==
  /\ last.op = "send"
  /\ ~verify(msgs[last.mid])
  /\ last.ret = "raised"
  /\ messageHistory # <<>>
  /\ \E a \in Range(agents) : agent[a].messagesReceived > 0

\* the deliveries for which receiveMessage was invoked on agent a
Invocations(a) ==
  {ci \in {<<c, i>> : c \in 1..Len(calls), i \in 1..MaxDeliverMsgs + 1} :
     /\ ci[2] <= Len(calls[ci[1]].dl)
     /\ calls[ci[1]].dl[ci[2]].recipientId = a
     /\ calls[ci[1]].dl[ci[2]].seq > 0}

\* C7: for a verified envelope send does not raise and makes exactly one delivery
\* per resolved recipient, in order: an unregistered recipient gets a 'failed' record
\* (agent_not_found) without any invocation; every registered recipient has
\* receiveMessage invoked whatever happened to the others, and its record is
\* 'delivered' only if its processMessage returned and 'failed' only if it raised;
\* nobody is invoked more than once per envelope addressed to it (no retry).
C7_OneRecordPerRecipient ==
  /\ \A c \in 1..Len(calls) :
       LET m == msgs[calls[c].msg]
           recips == ResolveRecipients(m)
           dl == calls[c].dl
       IN /\ calls[c].threw <=> ~verify(m)
          /\ verify(m) =>
               /\ Len(dl) = Len(recips)
               /\ \A i \in 1..Len(dl) :
                    /\ dl[i].recipientId = recips[i]
                    /\ ~Contains(agents, recips[i]) =>
                         /\ dl[i].st = "failed"
                         /\ dl[i].reason = "agent_not_found"
                         /\ dl[i].seq = 0
                    /\ Contains(agents, recips[i]) =>
                         /\ dl[i].seq > 0
                         /\ dl[i].st = "delivered" => dl[i].outcome = "returned"
                         /\ dl[i].st = "failed" =>
                              dl[i].outcome = "raised" /\ dl[i].reason = "error"
                         /\ (Settled(calls[c]) /\ dl[i].outcome = "returned") =>
                              dl[i].st = "delivered"
  /\ \A a \in Range(agents) :
       agent[a].messagesReceived = Cardinality(Invocations(a))

\* a settled send with a record for an unregistered recipient, a failed record for
\* a recipient that raised and a delivered record for a recipient listed after both
C7_Witness ==
  \E c \in 1..Len(calls) :
    /\ Settled(calls[c])
    /\ \E i, j, k \in 1..Len(calls[c].dl) :
         /\ i < k /\ j < k
         /\ calls[c].dl[i].reason = "agent_not_found"
         /\ calls[c].dl[j].st = "failed" /\ calls[c].dl[j].outcome = "raised"
         /\ calls[c].dl[k].st = "delivered"

\* C9: if send(m1) is called before send(m2) and both resolve to the same registered
\* recipient, the recipient's receiveMessage is invoked for m1 before it is invoked
\* for m2 (seq, the recipient's count of invocations when it was entered, is
\* positive for both and smaller for m1), whatever the callers and however their
\* continuations interleave.
C9_SendOrderPerRecipient ==
  \A c1, c2 \in 1..Len(calls) :
    \A i \in 1..Len(calls[c1].dl), j \in 1..Len(calls[c2].dl) :
      (/\ c1 < c2
       /\ calls[c1].dl[i].recipientId = calls[c2].dl[j].recipientId
       /\ Contains(agents, calls[c1].dl[i].recipientId))
      => /\ 0 < calls[c1].dl[i].seq
         /\ calls[c1].dl[i].seq < calls[c2].dl[j].seq

\* two sends from different callers reached one recipient, the second while the
\* first was still being processed
C9_Witness ==
  \E c1, c2 \in 1..Len(calls) :
    \E i \in 1..Len(calls[c1].dl), j \in 1..Len(calls[c2].dl) :
      /\ c1 < c2
      /\ msgs[calls[c1].msg].sender # msgs[calls[c2].msg].sender
      /\ calls[c1].dl[i].recipientId = calls[c2].dl[j].recipientId
      /\ calls[c1].dl[i].st = "processing"
      /\ calls[c2].dl[j].seq = calls[c1].dl[i].seq + 1

-----------------------------------------------------------------------------
(* Properties of the history, checked under SpecHistory *)

\* the send call that accepted the envelope recorded as entry
CallOf(entry) == CHOOSE c \in 1..Len(calls) : calls[c].msg = entry.id

C6_CleanupRemovesExactlyExpired ==
  [][last'.op = "cleanup" =>
       LET Kept(e) == ~(e.timestamp.sec * 1000 + e.timestamp.msec + e.ttl * 1000 < now)
       IN /\ messageHistory' = SelectSeq(messageHistory, Kept)
          /\ metrics' = [metrics EXCEPT !.messagesExpired =
                           @ + Len(messageHistory) - Len(messageHistory')]
          /\ UNCHANGED <<agents, subscriptions, channels>>]_busVars

\* a sweep has just removed an entry and kept one whose ttl ends at this very
\* millisecond
C6_Witness ==
  /\ last.op = "cleanup"
  /\ metrics.messagesExpired > 0
  /\ \E i \in 1..Len(messageHistory) :
       DateParse(messageHistory[i].timestamp) + messageHistory[i].ttl * 1000 = now

-----------------------------------------------------------------------------
(* Property of MessageBus.broadcast, checked under SpecRegistry *)

\* C8: broadcast on a channel that is unknown or has no subscriber returns
\* {status: 'no_subscribers', channel} and neither constructs an envelope nor calls
\* send: the envelopes, the history, the counters, every agent and the send calls
\* are as they were.
C8_BroadcastWithoutSubscribers ==
  [][(/\ last'.op = "broadcast"
      /\ (last'.channel \notin DOMAIN channels \/ channels[last'.channel] = <<>>))
       => /\ last'.ret = "no_subscribers"
          /\ last'.mid = 0
          /\ UNCHANGED <<msgs, messageHistory, metrics, agent, calls>>]_busVars

\* a broadcast on a channel that exists but has lost its last subscriber returned
\* no_subscribers on a bus that had carried a broadcast before
C8_Witness ==
  /\ last.op = "broadcast"
  /\ last.ret = "no_subscribers"
  /\ last.channel \in DOMAIN channels
  /\ channels[last.channel] = <<>>
  /\ messageHistory # <<>>

-----------------------------------------------------------------------------
(* Property of Message.verify, checked under SpecEnvelope *)

\* C4: an assignment that changes one of the five signed fields (id, timestamp,
\* sender, type, payload) of an envelope whose verify() was true leaves verify()
\* false.
C4_SignedFieldChangeBreaksVerify ==
  [][(/\ last'.op = "set"
      /\ last'.channel \in SignedFields
      /\ msgs'[last'.mid] # msgs[last'.mid]
      /\ verify(msgs[last'.mid]))
       => ~verify(msgs'[last'.mid])]_vars

-----------------------------------------------------------------------------
(* Property of selectArchitecture, checked under SpecRoute *)

\* the routing table as documented
DocumentedArchitecture(t) ==
  CASE t.type = "financial_approval" ->
         IF t.amount.num /\ t.amount.n > 500 THEN "council" ELSE "sequential"
    [] t.type = "system_alert" ->
         IF t.severity = "critical" THEN "emergency" ELSE "concurrent"
    [] t.type \in {"customer_inquiry", "data_processing"} -> "concurrent"
    [] t.type = "complex_analysis" -> "competitive"
    [] OTHER -> "sequential"

\* C10: selectArchitecture returns, for every task, the strategy of the documented
\* table (unmatched types give sequential), which is one of the five registered.
C10_SelectArchitectureTotal ==
  selected.done =>
    /\ ~selected.raised
    /\ selected.value = DocumentedArchitecture(task)
    /\ selected.value \in Architectures

-----------------------------------------------------------------------------
(* Property of BaseAgent.query, checked under SpecQuery *)

\* the reply to query q has arrived: the target's response envelope, in reply to
\* the query envelope, has been handed to the caller's receiveMessage
Replied(q) ==
  \E c \in 1..Len(calls) :
    /\ msgs[calls[c].msg].type = "response"
    /\ msgs[calls[c].msg].sender = q.target
    /\ msgs[calls[c].msg].payload.inReplyTo = msgs[q.msg].id
    /\ \E i \in 1..Len(calls[c].dl) :
         calls[c].dl[i].recipientId = q.caller /\ calls[c].dl[i].seq > 0

\* C1: a query fails with a timeout only when no reply has arrived: the timer never
\* rejects a query whose reply the caller has already received.
C1_TimeoutOnlyWithoutReply ==
  [][\A i \in 1..Len(queries) :
       (queries[i].state = "pending" /\ queries'[i].state = "rejected")
         => ~Replied(queries[i])]_vars

-----------------------------------------------------------------------------
(* Property of the strategies, checked under SpecStrategy *)

\* C2: on an initialised swarm, whatever the strategy, a submitTask call whose
\* participants were queried and did not reply in time ends by returning a result
\* that carries a status: it never ends by raising.
C2_TimeoutYieldsStatus ==
  \A r \in 1..Len(runs) :
    (runs[r].queries # <<>> /\ runs[r].state # "running")
      => (runs[r].state = "returned" /\ runs[r].status # "")

-----------------------------------------------------------------------------
(* Properties of CouncilArchitecture.execute, checked under SpecCouncil *)

\* C11: whatever the votes and their order, the council returns 'approved' when
\* approvals / total votes >= 2/3, abstentions counting in the total, and 'rejected'
\* when not
C11_ApprovedIffTwoThirds ==
  exec.state = "returned" =>
    LET votes == exec.result.votes
        twoThirds == Len(votes) > 0 /\ 3 * Approvals(votes) >= 2 * Len(votes)
    IN /\ twoThirds => exec.result.status = "approved"
       /\ ~twoThirds => exec.result.status = "rejected"

\* C12: the consensus ratio the council returns is a number between 0 and 1, also
\* when no agent was selected
C12_ConsensusInUnitInterval ==
  exec.state = "returned" =>
    LET consensus == exec.result.consensus
    IN ~consensus.nan /\ 0 <= consensus.num /\ consensus.num <= consensus.den

-----------------------------------------------------------------------------
(* Properties of the strategies' execute, checked under SpecExecute *)

\* C13: a council voter whose vote request is rejected (it failed or timed out) is
\* recorded as one 'abstain' vote; the votes list has one entry per agent, the votes
\* of the other agents are gathered as they were given, and execute returns a
\* result once every request has settled: it never raises
C13_FailedVoterAbstains ==
  exec.architecture = "council" =>
    /\ exec.state # "raised"
    /\ (exec.state # "called" /\ exec.settled = 1..Len(exec.agents)) => exec.state = "returned"
    /\ exec.state = "returned" =>
         /\ Len(exec.result.votes) = Len(exec.agents)
         /\ \A i \in 1..Len(exec.agents) :
              /\ ~exec.outcomes[i].fulfilled => exec.result.votes[i] = "abstain"
              /\ (exec.outcomes[i].fulfilled /\ exec.outcomes[i].reply.vote # Undefined)
                   => exec.result.votes[i] = exec.outcomes[i].reply.vote

\* a council of three returned although its second voter failed: the first vote is
\* the approval given, the second an abstention
C13_Witness ==
  /\ exec.architecture = "council"
  /\ exec.state = "returned"
  /\ Len(exec.agents) = 3
  /\ exec.outcomes[1].fulfilled /\ exec.outcomes[1].reply.vote = "approve"
  /\ ~exec.outcomes[2].fulfilled
  /\ exec.result.votes[1] = "approve"
  /\ exec.result.votes[2] = "abstain"

\* the agents of the call whose query is fulfilled, and those whose query is rejected
FulfilledBranches == {i \in 1..Len(exec.agents) : exec.outcomes[i].fulfilled}
FailedBranches == {i \in 1..Len(exec.agents) : ~exec.outcomes[i].fulfilled}

\* C14: what the concurrent strategy returns has status 'success' when no branch
\* failed and 'partial' when one did; results has one entry per fulfilled branch,
\* failures one per failed branch, and together as many as there are agents
C14_ConcurrentStatusAndLists ==
  (exec.architecture = "concurrent" /\ exec.state = "returned") =>
    /\ FailedBranches = {} => exec.result.status = "success"
    /\ FailedBranches # {} => exec.result.status = "partial"
    /\ Len(exec.result.results) = Cardinality(FulfilledBranches)
    /\ \A k \in 1..Len(exec.result.results) :
         \E i \in FulfilledBranches : exec.result.results[k] = exec.outcomes[i].reply
    /\ Len(exec.result.failures) = Cardinality(FailedBranches)
    /\ Range(exec.result.failures) = FailedBranches
    /\ Len(exec.result.results) + Len(exec.result.failures) = Len(exec.agents)

\* a concurrent call of three agents returned 'partial' with two results and one failure
C14_Witness ==
  /\ exec.architecture = "concurrent"
  /\ exec.state = "returned"
  /\ Len(exec.agents) = 3
  /\ Cardinality(FailedBranches) = 1
  /\ exec.result.status = "partial"
  /\ Len(exec.result.results) = 2
  /\ Len(exec.result.failures) = 1

\* C15: whichever branches of the concurrent strategy fail, all of them included, and
\* whatever the synthesis mode, execute returns a result: it does not raise
C15_ConcurrentNeverRaises ==
  (exec.architecture = "concurrent" /\ exec.agents # <<>>) => exec.state # "raised"

\* C16: the sequential strategy calls the agents one after another in list order:
\* a step is not started before the one before it was completed, the first step is
\* given the task and each later one the output of the step before, the trace holds
\* the (agent, input, output) of every completed step in order and finalResult is
\* the output of the last step
C16_SequentialChain ==
  exec.architecture = "sequential" =>
    /\ Len(exec.invoked) <= Len(exec.trace) + 1
    /\ \A k \in 1..Len(exec.invoked) :
         /\ exec.invoked[k].agent = exec.agents[k]
         /\ exec.invoked[k].step = k
         /\ exec.invoked[k].input =
              IF k = 1 THEN TaskInput ELSE ReplyInput(exec.outcomes[k - 1].reply)
         /\ k > 1 => (k - 1 \in exec.settled /\ exec.outcomes[k - 1].fulfilled)
    /\ \A k \in 1..Len(exec.trace) :
         exec.trace[k] = [agent |-> exec.agents[k], input |-> exec.invoked[k].input,
                          output |-> exec.outcomes[k].reply]
    /\ exec.state = "returned" =>
         /\ exec.result.trace = exec.trace
         /\ Len(exec.trace) = Len(exec.agents)
         /\ exec.result.steps = Len(exec.agents)
         /\ exec.result.finalResult =
              IF exec.agents = <<>> THEN TaskInput
              ELSE ReplyInput(exec.outcomes[Len(exec.agents)].reply)

\* a pipeline of three steps returned, the second step having been given the output
\* of the first, which differs from the output of the second
C16_Witness ==
  /\ exec.architecture = "sequential"
  /\ exec.state = "returned"
  /\ Len(exec.trace) = 3
  /\ exec.outcomes[1].reply # exec.outcomes[2].reply
  /\ exec.trace[2].input = ReplyInput(exec.outcomes[1].reply)
  /\ exec.result.finalResult = ReplyInput(exec.outcomes[3].reply)

\* C17: when a step of the sequential strategy fails, no later agent is called and
\* execute returns the partial trace of the steps completed before it
C17_FailedStepReturnsPartialTrace ==
  exec.architecture = "sequential" =>
    \A k \in exec.settled :
      ~exec.outcomes[k].fulfilled =>
        /\ Len(exec.invoked) = k
        /\ exec.state = "returned"
        /\ Len(exec.result.trace) = k - 1

\* C18: the winner the competitive strategy returns is a scored result of the
\* highest score, the one of the earliest agent when several share that score, and
\* allResults holds one scored entry per agent
C18_WinnerIsFirstMaximum ==
  (exec.architecture = "competitive" /\ exec.state = "returned") =>
    LET all == exec.result.allResults
        winner == exec.result.winner
    IN /\ Len(all) = Len(exec.agents)
       /\ \A i \in 1..Len(all) :
            /\ all[i].agent = exec.agents[i]
            /\ all[i].result = exec.outcomes[i].reply
            /\ all[i].score = evaluateResult(all[i])
       /\ \E i \in 1..Len(all) :
            /\ winner = all[i]
            /\ \A j \in 1..Len(all) : all[j].score <= winner.score
            /\ \A j \in 1..(i - 1) : all[j].score < winner.score

\* three competitors, the second and the third sharing the highest score: the
\* second wins
C18_Witness ==
  /\ exec.architecture = "competitive"
  /\ exec.state = "returned"
  /\ Len(exec.agents) = 3
  /\ exec.result.allResults[1].score < exec.result.allResults[2].score
  /\ exec.result.allResults[2].score = exec.result.allResults[3].score
  /\ exec.result.winner.agent = 2

\* C19: a competitor that fails or times out is left out and the winner is chosen
\* among the others: once every branch has settled, one of them fulfilled, execute
\* has returned a winner that is a fulfilled branch
C19_FailedCompetitorIsLocal ==
  (/\ exec.architecture = "competitive"
   /\ exec.state # "called"
   /\ exec.settled = 1..Len(exec.agents)
   /\ FulfilledBranches # {}
   /\ FailedBranches # {}) =>
    /\ exec.state = "returned"
    /\ exec.result.winner.agent \in FulfilledBranches

-----------------------------------------------------------------------------
(* Property of the emergency strategy in the swarm, checked under SpecEmergency *)

\* the submission r of a critical alert went to the emergency strategy, which
\* called on the agent that selectAgents put first
EmergencyCalled(r) ==
  IF Len(runs) < r THEN FALSE
  ELSE /\ runs[r].task = EmergencyTask
       /\ runs[r].architecture = "emergency"
       /\ Len(runs[r].agents) = 1
       /\ Len(runs[r].queries) = 1

EmergencyExecuted(r) ==
  IF Len(runs) < r THEN FALSE
  ELSE runs[r].state = "returned" /\ runs[r].status = "executed"

\* C20: a critical system alert submitted to an initialised swarm is routed to the
\* emergency strategy, which calls on one agent, the first of the best score, and
\* the submission eventually returns a result of status 'executed'
C20_EmergencyEventuallyExecuted ==
  \A r \in 1..MaxTasks : EmergencyCalled(r) ~> EmergencyExecuted(r)

-----------------------------------------------------------------------------
(* Properties of BaseAgent.receiveMessage, checked under SpecDeliver *)

\* the receiveMessage call of delivery i of send call c has started and not ended
Receiving(c, i) == calls[c].dl[i].st \in {"processing", "responding", "erroring"}

\* C21: from the start of a receiveMessage call to its end the agent's status is
\* 'busy', and when the call has ended the status is 'idle', the status before the
\* call not having been 'error'
C21_BusyDuringReceive ==
  \A c \in 1..Len(calls) : \A i \in 1..Len(calls[c].dl) :
    Receiving(c, i) => agent[calls[c].dl[i].recipientId].status = "busy"

-----------------------------------------------------------------------------
(* Properties of BaseAgent.receiveMessage, checked under SpecReceive *)

\* the envelope the latest step constructed and handed to the bus
Emitted == msgs'[Len(msgs')]

\* C22: when processMessage returns, the agent sends one response envelope to the
\* sender of the envelope it handled, carrying the result, if that envelope's type
\* is query, delegate or command, and no envelope if it is of another type
C22_ResponseIffReplyingType ==
  [][(last'.op = "processMessage" /\ last'.ret = "returned") =>
       LET m == msgs[last'.mid]
           a == last'.channel
       IN IF m.type \in {"query", "delegate", "command"}
          THEN /\ Len(msgs') = Len(msgs) + 1
               /\ Len(calls') = Len(calls) + 1
               /\ calls'[Len(calls')].msg = Len(msgs')
               /\ ~calls'[Len(calls')].threw
               /\ Emitted.type = "response"
               /\ Emitted.sender = a
               /\ Emitted.recipients.ids = <<m.sender>>
               /\ Emitted.payload.data = "result"
          ELSE msgs' = msgs /\ Len(calls') = Len(calls)]_vars

\* doctor handled a command of charon and its response to charon is the latest envelope
C22_Witness ==
  /\ last.op = "processMessage" /\ last.ret = "returned" /\ last.channel = "doctor"
  /\ msgs[last.mid].type = "command"
  /\ msgs[last.mid].sender = "charon"
  /\ msgs[Len(msgs)].type = "response"
  /\ msgs[Len(msgs)].recipients.ids = <<"charon">>
  /\ msgs[Len(msgs)].payload.inReplyTo = last.mid

\* the delivery of envelope mid to agent a, in the calls c
DeliveryOf(c, mid, a) ==
  CHOOSE d \in {c[k].dl[i] : k \in {k \in 1..Len(c) : c[k].msg = mid},
                             i \in 1..Len(c[1].dl)} : d.recipientId = a

\* C23: when processMessage raises, the agent counts a failed task and no completed
\* one and sends one error envelope of priority HIGH to the sender of the envelope
\* it handled; when receiveMessage then raises to the bus, the bus records the
\* delivery as failed and the send call does not raise
C23_FailureCountedReportedRecorded ==
  [][/\ (last'.op = "processMessage" /\ last'.ret = "raised") =>
          LET m == msgs[last'.mid]
              a == last'.channel
          IN /\ agent'[a].tasksFailed = agent[a].tasksFailed + 1
             /\ agent'[a].tasksCompleted = agent[a].tasksCompleted
             /\ Len(msgs') = Len(msgs) + 1
             /\ calls'[Len(calls')].msg = Len(msgs')
             /\ Emitted.type = "error"
             /\ Emitted.priority = PriorityHigh
             /\ Emitted.sender = a
             /\ Emitted.recipients.ids = <<m.sender>>
     /\ (last'.op = "receiveMessage" /\ last'.ret = "raised") =>
          /\ DeliveryOf(calls', last'.mid, last'.channel).st = "failed"
          /\ DeliveryOf(calls', last'.mid, last'.channel).reason = "error"
          /\ DeliveryOf(calls', last'.mid, last'.channel).outcome = "raised"
          /\ metrics'.messagesReceived = metrics.messagesReceived
          /\ \A k \in 1..Len(calls') : calls'[k].msg = last'.mid => ~calls'[k].threw]_vars

\* doctor's processMessage raised on a report of charon: doctor counted the failure,
\* its error envelope went to charon and the bus recorded the delivery as failed
C23_Witness ==
  /\ last.op = "receiveMessage" /\ last.ret = "raised" /\ last.channel = "doctor"
  /\ msgs[last.mid].type = "report"
  /\ msgs[last.mid].sender = "charon"
  /\ agent["doctor"].tasksFailed = 1
  /\ agent["doctor"].tasksCompleted = 0
  /\ \E e \in 1..Len(msgs) : /\ msgs[e].type = "error"
                             /\ msgs[e].priority = PriorityHigh
                             /\ msgs[e].recipients.ids = <<"charon">>
  /\ calls[1].dl[1].st = "failed"

-----------------------------------------------------------------------------
(* BaseAgent.canDecide *)

MaxAmount == 2

\* values of an entry of decisionAuthority
Bool(b) == [type |-> "boolean", b |-> b, n |-> 0]
Ceiling(n) == [type |-> "number", b |-> FALSE, n |-> n]
Text == [type |-> "string", b |-> FALSE, n |-> 0]
NoEntry == [type |-> "undefined", b |-> FALSE, n |-> 0]

\* !authority
Falsy(authority) ==
  \/ authority.type = "undefined"
  \/ authority.type = "boolean" /\ ~authority.b
  \/ authority.type = "number" /\ authority.n = 0

\* this.decisionAuthority[decisionType]
Authority(decisionAuthority, decisionType) ==
  IF decisionType \in DOMAIN decisionAuthority THEN decisionAuthority[decisionType]
  ELSE NoEntry

canDecide(decisionAuthority, decisionType, amount) ==
  LET authority == Authority(decisionAuthority, decisionType) IN
  IF Falsy(authority) THEN FALSE
  ELSE IF authority.type = "boolean" THEN authority.b
  ELSE IF authority.type = "number" THEN amount <= authority.n
  ELSE FALSE

DecisionKinds == {"spending", "refunds"}
DecisionTypes == DecisionKinds \cup {"technical"}
AuthorityValues == {Bool(TRUE), Bool(FALSE), Text} \cup {Ceiling(n) : n \in 0..MaxAmount}
Authorities == UNION {[ks -> AuthorityValues] : ks \in SUBSET DecisionKinds}

\* new BaseAgent({decisionAuthority})
InitDecide ==
  /\ BusConstructed({0}, <<>>)
  /\ initialized = FALSE
  /\ queries = <<>>
  /\ runs = <<>>
  /\ taskHistory = <<>>
  /\ task = NoTask
  /\ selected = NotCalled
  /\ exec \in {[state |-> "constructed", decisionAuthority |-> da, decisionType |-> "",
                amount |-> 0, ret |-> FALSE] : da \in Authorities}

\* agent.canDecide(decisionType, amount)
CanDecide(decisionType, amount) ==
  /\ exec.state \in {"constructed", "decided"}
  /\ exec' = [exec EXCEPT !.state = "decided", !.decisionType = decisionType,
                          !.amount = amount,
                          !.ret = canDecide(exec.decisionAuthority, decisionType, amount)]
  /\ UNCHANGED <<busVars, initialized, queries, runs, taskHistory, task, selected>>

NextDecide == \E decisionType \in DecisionTypes, amount \in 0..MaxAmount :
                CanDecide(decisionType, amount)

SpecDecide == InitDecide /\ [][NextDecide]_vars

\* C24: canDecide returns the entry's value when the entry is a boolean, whether the
\* amount is at most the ceiling when the entry is a number, a ceiling of 0 included,
\* and false when there is no entry for the kind
C24_CanDecideByEntryType ==
  exec.state = "decided" =>
    LET authority == Authority(exec.decisionAuthority, exec.decisionType) IN
    /\ authority.type = "boolean" => exec.ret = authority.b
    /\ authority.type = "number" => exec.ret = (exec.amount <= authority.n)
    /\ authority.type = "undefined" => exec.ret = FALSE

-----------------------------------------------------------------------------
(* Select: selectAgents(task, architecture) on an orchestrator whose bus holds  *)
(* some further agents of a pool, each idle or busy and with a history of       *)
(* completed and failed tasks; the envelope a busy agent is handling plays no   *)
(* part in the selection and is left out                                        *)

SelectPool == <<"adjudicator", "auditor", "john-wick", "analyst">>

RECURSIVE LineUps(_)
\* the agents of the pool that are registered, in the order of registration
LineUps(pool) ==
  IF pool = <<>> THEN {<<>>}
  ELSE LET rest == LineUps(Tail(pool))
       IN rest \cup {<<Head(pool)>> \o l : l \in rest}

\* <<tasksCompleted, tasksFailed>>
Histories == {<<0, 0>>, <<0, 1>>, <<1, 2>>}

\* the task with the property requiredSkills or preferredRole set
With(t, property, value) == (property :> value) @@ t

SelectTasks ==
  LET t == Task("analysis", NotNum, Undefined, Undefined)
      skilled == With(t, "requiredSkills", <<"finance", "audit", "security">>)
  IN {t, skilled, With(skilled, "preferredRole", "CFO"), With(t, "requiredSkills", <<>>)}

SelectArchitectures == {"council", "sequential", "concurrent", "competitive"}

InitSelect ==
  /\ SwarmConstructed
  /\ \E l \in LineUps(SelectPool) :
       LET constructed == [a \in Agents \cup Range(SelectPool) |-> NewAgent]
           reg == initializeAll([EmptyRegistry EXCEPT !.agent = constructed],
                                <<Orchestrator>> \o l)
       IN
       /\ agents = reg.agents
       /\ subscriptions = reg.subscriptions
       /\ channels = reg.channels
       /\ agent \in {[a \in DOMAIN reg.agent |->
                        IF a \in Range(l)
                        THEN [reg.agent[a] EXCEPT
                                !.status = p[a][1],
                                !.tasksCompleted = p[a][2][1],
                                !.tasksFailed = p[a][2][2],
                                !.messagesReceived =
                                   p[a][2][1] + p[a][2][2]
                                   + (IF p[a][1] = "busy" THEN 1 ELSE 0)]
                        ELSE reg.agent[a]] :
                     p \in [Range(l) -> {"idle", "busy"} \X Histories]}
  /\ now = 0
  /\ msgs = <<>>
  /\ messageHistory = <<>>
  /\ maxHistory = DefaultMaxHistory
  /\ metrics = [messagesSent |-> 0, messagesReceived |-> 0, messagesExpired |-> 0]
  /\ calls = <<>>
  /\ last = Op("constructor", 0, "", "")

\* orchestrator.selectAgents(t, architecture)
SelectAgents(t, architecture) ==
  /\ exec.state = "none"
  /\ exec' = [state |-> "selected", architecture |-> architecture,
              agents |-> selectAgents(State, t, architecture)]
  /\ task' = t
  /\ UNCHANGED <<busVars, initialized, queries, runs, taskHistory, selected>>

NextSelect == \E t \in SelectTasks, architecture \in SelectArchitectures :
                SelectAgents(t, architecture)

SpecSelect == InitSelect /\ [][NextSelect]_vars

-----------------------------------------------------------------------------
(* Properties of selectAgents and calculateAgentScore, checked under SpecSelect *)

\* the agents selectAgents scores: all registered agents but the orchestrator
Candidates == Range(agents) \ {Orchestrator}

\* the score of agent a for the task of the call
ScoreOf(a) == calculateAgentScore(State, a, task)

\* the score of a is not lower than the score of b
NotLower(a, b) == ~DoubleGreater(ScoreOf(b), ScoreOf(a))

\* the number of skills of a among the required ones
Overlap(a) ==
  IF "requiredSkills" \in DOMAIN task
  THEN Cardinality({i \in 1..Len(Skills(a)) : Contains(task.requiredSkills, Skills(a)[i])})
  ELSE 0

RoleMatches(a) == "preferredRole" \in DOMAIN task /\ Role(a) = task.preferredRole

\* the success rate of a is at most the one of b, both taken exactly
RateAtMost(a, b) ==
  LET done(x) == agent[x].tasksCompleted + agent[x].tasksFailed
      num(x) == IF done(x) = 0 THEN 1 ELSE agent[x].tasksCompleted
      den(x) == IF done(x) = 0 THEN 1 ELSE done(x)
  IN num(a) * den(b) <= num(b) * den(a)

\* C25: of two agents that differ in one input only, the one with the larger skill
\* overlap, the idle one, or the one with the higher success rate (anywhere in 0..1)
\* never has the lower score
C25_ScoreMonotonic ==
  exec.state = "selected" =>
    \A a \in Candidates, b \in Candidates :
      /\ ( /\ agent[a].status = agent[b].status
           /\ RateAtMost(a, b) /\ RateAtMost(b, a)
           /\ RoleMatches(a) = RoleMatches(b)
           /\ Overlap(a) <= Overlap(b) ) => NotLower(b, a)
      /\ ( /\ Overlap(a) = Overlap(b)
           /\ RateAtMost(a, b) /\ RateAtMost(b, a)
           /\ RoleMatches(a) = RoleMatches(b)
           /\ agent[b].status = "idle" ) => NotLower(b, a)
      /\ ( /\ Overlap(a) = Overlap(b)
           /\ agent[a].status = agent[b].status
           /\ RoleMatches(a) = RoleMatches(b)
           /\ RateAtMost(a, b) ) => NotLower(b, a)

\* the candidates in the order of registration
CandidateSeq == SelectSeq(agents, LAMBDA a : a # Orchestrator)

\* the position of agent a in the sequence s
IndexIn(s, a) == CHOOSE i \in 1..Len(s) : s[i] = a

\* C26: an agent is left out iff its score is below 0.3, an agent scoring exactly
\* 0.3 staying eligible, and the eligible agents are taken in descending score order
C26_ExcludedIffBelowThreshold ==
  exec.state = "selected" =>
    LET sc == Scores(State, CandidateSeq, task)
        score(a) == sc[IndexIn(CandidateSeq, a)]
        r == exec.agents
    IN /\ exec.architecture = "sequential" =>
            \A a \in Candidates : ~Contains(r, a) <=> DoubleGreater(PointThree, score(a))
       /\ exec.architecture = "concurrent" =>
            /\ \A k \in 1..(Len(r) - 1) : ~DoubleGreater(score(r[k + 1]), score(r[k]))
            /\ \A a \in Candidates \ Range(r) : \A k \in 1..Len(r) :
                 ~DoubleGreater(score(a), score(r[k]))

\* C27: for council and competitive the result holds min(3, number of eligible
\* agents) distinct agents: the best agent of each role in descending score order
\* first, then, only when there are fewer than 3 roles, the best of the other agents;
\* with 3 roles or more among the eligible agents the roles of the 3 agents differ
C27_DiverseSelection ==
  (exec.state = "selected" /\ exec.architecture \in {"council", "competitive"}) =>
    LET sc == Scores(State, CandidateSeq, task)
        n == Len(CandidateSeq)
        role(i) == Role(CandidateSeq[i])
        eligible == {i \in 1..n : DoubleGreater(sc[i], PointThree)}
        \* i stands before j in descending score order, the earlier registered first
        before(i, j) == DoubleGreater(sc[i], sc[j]) \/ (sc[i] = sc[j] /\ i < j)
        leaders == {i \in eligible :
                      \A j \in eligible \ {i} : role(j) = role(i) => before(i, j)}
        followers == eligible \ leaders
        rank(set, i) == Cardinality({j \in set : before(j, i)}) + 1
        roles == Cardinality(leaders)
        r == [k \in 1..Len(exec.agents) |-> IndexIn(CandidateSeq, exec.agents[k])]
    IN /\ Len(r) = IF Cardinality(eligible) < 3 THEN Cardinality(eligible) ELSE 3
       /\ \A k \in 1..Len(r) :
            IF k <= roles THEN r[k] \in leaders /\ rank(leaders, r[k]) = k
            ELSE r[k] \in followers /\ rank(followers, r[k]) = k - roles
       /\ roles >= 3 => \A k \in 1..3, l \in 1..3 : k # l => role(r[k]) # role(r[l])

\* four agents are eligible, both agents of the role CFO score higher than the two
\* others, and the council is the better CFO and the agents of the two other roles
C27_Witness ==
  /\ exec.state = "selected"
  /\ exec.architecture = "council"
  /\ agents = <<"winston", "adjudicator", "auditor", "john-wick", "analyst">>
  /\ "requiredSkills" \notin DOMAIN task
  /\ agent["adjudicator"].status = "idle" /\ agent["auditor"].status = "idle"
  /\ agent["john-wick"].status = "busy" /\ agent["analyst"].status = "busy"
  /\ \A a \in Candidates : agent[a].tasksFailed = 0
  /\ exec.agents = <<"adjudicator", "john-wick", "analyst">>

\* C28: for sequential the result is a permutation of the eligible agents in which
\* the agents of the roles CFO, CTO, COO, CCO stand in that order and before every
\* agent of another role, and the agents of other roles in descending score order
C28_SequentialOrder ==
  (exec.state = "selected" /\ exec.architecture = "sequential") =>
    LET sc == Scores(State, CandidateSeq, task)
        score(a) == sc[IndexIn(CandidateSeq, a)]
        precedence == <<"CFO", "CTO", "COO", "CCO">>
        listed(a) == Contains(precedence, Role(a))
        r == exec.agents
    IN /\ Range(r) = {a \in Candidates : DoubleGreater(score(a), PointThree)}
       /\ \A p \in 1..Len(r), q \in 1..Len(r) : p < q =>
            /\ r[p] # r[q]
            /\ (listed(r[p]) /\ listed(r[q])) =>
                 IndexIn(precedence, Role(r[p])) <= IndexIn(precedence, Role(r[q]))
            /\ listed(r[q]) => listed(r[p])
            /\ (~listed(r[p]) /\ ~listed(r[q])) => ~DoubleGreater(score(r[q]), score(r[p]))

-----------------------------------------------------------------------------
(* Trace: orchestrator.routeTask(task) on an orchestrator whose bus holds two   *)
(* further agents; what their queries settle with is an input.  A task carries *)
(* the id its caller gave it, here the number of the call.                      *)

MaxRouted == 2

\* a faulty variant: the entry is pushed however execute ended
recordTaskAlways(history, before, after, time) ==
  IF before.state \in {"called", "running"} /\ after.state \in {"returned", "raised"}
  THEN Append(history, [id |-> after.task.id, type |-> after.task.type,
                        architecture |-> after.architecture, agents |-> after.ids,
                        result |-> after.result.status,
                        timestamp |-> ToISOString(time)])
  ELSE history

\* routeTask after the await of architecture.execute: this.taskHistory.push({...})
\* once execute has returned; before and after are the call's states around the step
recordTask(history, before, after, time) ==
  IF before.state \in {"called", "running"} /\ after.state = "returned"
  THEN Append(history, [id |-> after.task.id, type |-> after.task.type,
                        architecture |-> after.architecture, agents |-> after.ids,
                        result |-> after.result.status,
                        timestamp |-> ToISOString(time)])
  ELSE history

\* a call of routeTask(t) that has selected the agents as and not yet called execute
Routed(architecture, t, as, outcomes, elapsed) ==
  With(Called(architecture, t, outcomes, elapsed), "ids", as)

\* orchestrator.routeTask(t) up to the first await of a query; the call before it
\* has ended
RouteTask(t, max) ==
  /\ exec.state \in {"none", "returned", "raised"}
  /\ task.id < max
  /\ LET call == With(t, "id", task.id + 1)
         architectureName == selectArchitecture(call)
     IN /\ task' = call
        /\ IF architectureName.raised
           THEN /\ exec' = settleWith(Routed("", call, <<>>, <<>>, <<>>), architectureName)
                /\ UNCHANGED taskHistory
           ELSE IF architectureName.value \notin Architectures
           THEN /\ exec' = settleWith(Routed("", call, <<>>, <<>>, <<>>),
                                      Raised("Unknown architecture"))
                /\ UNCHANGED taskHistory
           ELSE \E as \in {selectAgents(State, call, architectureName.value)} :
                \E outcomes \in [1..Len(as) -> {Rejected,
                        IF architectureName.value = "council" THEN Approve
                        ELSE Fulfilled(Reply(Undefined, Num(100), Num(90), "d"))}] :
                  LET called == Routed(architectureName.value, call, as, outcomes,
                                       [i \in 1..Len(as) |-> 0])
                  IN /\ exec' = executeStart(called)
                     /\ taskHistory' = recordTask(taskHistory, called, exec', now)
  /\ UNCHANGED <<busVars, initialized, queries, runs, selected>>

\* the query of agent i settles, the strategy goes on and, when it returns,
\* routeTask records the task and returns
RouteSettle(i) ==
  /\ exec.state \notin {"none", "called"}
  /\ i \in Waiting(exec)
  /\ exec' = settle(exec, i)
  /\ taskHistory' = recordTask(taskHistory, exec, exec', now)
  /\ UNCHANGED <<busVars, initialized, queries, runs, task, selected>>

TraceTasks ==
  {ExecTask(architecture, synthesisType) :
     architecture \in ExecArchitectures, synthesisType \in {"best", Undefined}}
    \cup {Task("constructor", NotNum, Undefined, Undefined)}

InitTrace ==
  /\ BusConstructed({0}, <<Orchestrator, "adjudicator", "john-wick">>)
  /\ initialized = FALSE
  /\ queries = <<>>
  /\ runs = <<>>
  /\ taskHistory = <<>>
  /\ task = With(NoTask, "id", 0)
  /\ selected = NotCalled
  /\ exec = NoExec

NextTrace ==
  \/ \E t \in TraceTasks : RouteTask(t, MaxRouted)
  \/ \E i \in 1..Len(agents) : RouteSettle(i)

SpecTrace == InitTrace /\ [][NextTrace]_vars

\* a call of routeTask returns on this step
RouteReturns ==
  /\ exec'.state = "returned"
  /\ exec.state = "running" \/ task'.id # task.id

\* C29: a routeTask call appends one trace entry, with the task's id and type, the
\* name of the chosen strategy, the ids of the selected agents and the status of
\* the result, on the step on which the strategy's result is returned, and that
\* result is what the call returns; on no other step, a raising one included, is
\* the history changed
C29_OneEntryPerReturnedCall ==
  [][IF RouteReturns
     THEN /\ taskHistory' = Append(taskHistory, taskHistory'[Len(taskHistory')])
          /\ taskHistory'[Len(taskHistory')].id = task'.id
          /\ taskHistory'[Len(taskHistory')].type = task'.type
          /\ taskHistory'[Len(taskHistory')].architecture = selectArchitecture(task').value
          /\ taskHistory'[Len(taskHistory')].agents = exec'.ids
          /\ taskHistory'[Len(taskHistory')].result = exec'.result.status
     ELSE taskHistory' = taskHistory]_vars

\* the first call went to the council of adjudicator and john-wick and was recorded
\* when both queries had settled; the second call raised and left no entry
C29_Witness ==
  /\ task.id = 2
  /\ exec.state = "raised"
  /\ Len(taskHistory) = 1
  /\ taskHistory[1].id = 1
  /\ taskHistory[1].architecture = "council"
  /\ taskHistory[1].agents = <<"adjudicator", "john-wick">>
  /\ taskHistory[1].result = "approved"

-----------------------------------------------------------------------------
(* Growth: routeTask is called again and again on an orchestrator whose bus    *)
(* holds one further agent; every call is a council of that agent, which       *)
(* approves or whose query is rejected.                                         *)

MaxGrowthTasks == 11

\* the one count the orchestrator applies to its history: getSwarmStatus reports
\* recentTasks: this.taskHistory.slice(-10), a copy; the history itself is only
\* ever pushed to
RecentTasks == 10

GrowthTask == ExecTask("council", Undefined)

InitGrowth ==
  /\ BusConstructed({0}, <<Orchestrator, "adjudicator">>)
  /\ initialized = FALSE
  /\ queries = <<>>
  /\ runs = <<>>
  /\ taskHistory = <<>>
  /\ task = With(NoTask, "id", 0)
  /\ selected = NotCalled
  /\ exec = NoExec

NextGrowth ==
  \/ RouteTask(GrowthTask, MaxGrowthTasks)
  \/ \E i \in 1..Len(agents) : RouteSettle(i)

SpecGrowth == InitGrowth /\ [][NextGrowth]_vars

\* C30: the orchestrator's history of routed tasks never holds more entries than
\* the number of recent tasks the orchestrator reports, however many tasks were
\* routed
C30_HistoryCapped == Len(taskHistory) <= RecentTasks

-----------------------------------------------------------------------------
(* Channels: the swarm is initialised once; agents are shut down one by one or *)
(* by the swarm's shutdown, callers subscribe, unsubscribe and re-register     *)
(* agents on the bus, and channels are broadcast on.                           *)

MaxChannelMsgs == 2

\* MessageBus.registerAgent(agent) for an id the bus already holds: the record is
\* replaced by one with an empty subscription set, then the id's own channel is
\* subscribed to
RegisterAgent(a) ==
  /\ Contains(agents, a)
  /\ subscriptions' = [subscriptions EXCEPT ![a] = {a}]
  /\ channels' = subscribe(channels, a, a)
  /\ last' = Op("registerAgent", 0, a, "")
  /\ UNCHANGED <<now, msgs, agents, messageHistory, maxHistory, metrics, agent, calls,
                 swarmVars>>

\* MessageBus.subscribe(agentId, channel)
Subscribe(a, channel) ==
  /\ IF Contains(agents, a)
     THEN /\ channels' = subscribe(channels, a, channel)
          /\ subscriptions' = [subscriptions EXCEPT ![a] = @ \cup {channel}]
          /\ last' = Op("subscribe", 0, channel, "true")
     ELSE /\ UNCHANGED <<channels, subscriptions>>
          /\ last' = Op("subscribe", 0, channel, "false")
  /\ UNCHANGED <<now, msgs, agents, messageHistory, maxHistory, metrics, agent, calls,
                 swarmVars>>

\* MessageBus.unsubscribe(agentId, channel)
Unsubscribe(a, channel) ==
  /\ IF Contains(agents, a)
     THEN /\ channels' = unsubscribe(channels, a, channel)
          /\ subscriptions' = [subscriptions EXCEPT ![a] = @ \ {channel}]
          /\ last' = Op("unsubscribe", 0, channel, "true")
     ELSE /\ UNCHANGED <<channels, subscriptions>>
          /\ last' = Op("unsubscribe", 0, channel, "false")
  /\ UNCHANGED <<now, msgs, agents, messageHistory, maxHistory, metrics, agent, calls,
                 swarmVars>>

\* BaseAgent.shutdown() on the registry reg
shutdown(reg, a) ==
  LET off == [reg EXCEPT !.agent[a].status = "offline"] IN
  IF Contains(reg.agents, a)
  THEN [off EXCEPT !.channels = unsubscribeAll(reg.channels, a, reg.subscriptions[a]),
                   !.agents = Without(reg.agents, a),
                   !.subscriptions =
                     [x \in DOMAIN reg.subscriptions \ {a} |-> reg.subscriptions[x]]]
  ELSE off

RECURSIVE shutdownAll(_, _)
\* for (const [id, agent] of this.agents) await agent.shutdown()
shutdownAll(reg, as) ==
  IF as = <<>> THEN reg ELSE shutdownAll(shutdown(reg, Head(as)), Tail(as))

\* KenyaClawSwarm.shutdown() of an initialised swarm; each await in its loop is of a
\* promise that is already resolved
SwarmShutdown ==
  /\ initialized
  /\ LET reg == shutdownAll(Registry, SwarmAgents)
     IN /\ agents' = reg.agents
        /\ subscriptions' = reg.subscriptions
        /\ channels' = reg.channels
        /\ agent' = reg.agent
  /\ initialized' = FALSE
  /\ last' = Op("shutdown", 0, "swarm", "")
  /\ UNCHANGED <<now, msgs, messageHistory, maxHistory, metrics, calls, queries, runs,
                 taskHistory, task, selected, exec>>

ChannelAgents == {"doctor"}
ChannelNames == {"emergency"}

InitChannels == BusConstructed({0}, <<>>) /\ SwarmConstructed

NextChannels ==
  \/ ~agent[Orchestrator].messageBus /\ SwarmInitialize
  \/ SwarmShutdown
  \/ \E a \in ChannelAgents : Shutdown(a)
  \/ \E a \in ChannelAgents : RegisterAgent(a)
  \/ \E a \in ChannelAgents, ch \in ChannelNames : Subscribe(a, ch)
  \/ \E a \in ChannelAgents, ch \in ChannelNames : Unsubscribe(a, ch)
  \/ \E ch \in ChannelNames : Broadcast(ch, "user", "broadcast", "d", MaxChannelMsgs)
  \/ \E c \in 1..Len(calls) : \E i \in 1..Len(calls[c].dl), ok \in BOOLEAN :
       ProcessReturn(c, i, ok, MaxChannelMsgs)
  \/ \E c \in 1..Len(calls) : \E i \in 1..Len(calls[c].dl) : FinishReceive(c, i)

SpecChannels == InitChannels /\ [][NextChannels]_vars

\* the ids on the channels of the bus
Subscribers == UNION {Range(channels[c]) : c \in DOMAIN channels}

\* the agents the latest shutdown was of
LastShutDown ==
  IF last.op # "shutdown" THEN {}
  ELSE IF last.channel = "swarm" THEN Agents ELSE {last.channel}

\* C31: when an agent's shutdown or the swarm's shutdown has returned, the bus holds
\* no registry entry for the agent and the agent is on no channel, the channels
\* set up at swarm start-up included; and the envelope of a broadcast is addressed
\* to no agent that is offline
C31_ShutdownLeavesNoSubscription ==
  /\ \A a \in LastShutDown : ~Contains(agents, a) /\ a \notin Subscribers
  /\ (last.op = "broadcast" /\ last.mid # 0) =>
       \A r \in Range(msgs[last.mid].recipients.ids) : agent[r].status # "offline"

\* C40: the channel table and the subscription sets of the registry agree: every id
\* on a channel is a registered agent whose record lists the channel, and every
\* channel a record lists has the agent among its subscribers
C40_ChannelsAgreeWithSubscriptions ==
  /\ \A c \in DOMAIN channels : \A a \in Range(channels[c]) :
       Contains(agents, a) /\ c \in subscriptions[a]
  /\ \A a \in Range(agents) : \A c \in subscriptions[a] :
       c \in DOMAIN channels /\ Contains(channels[c], a)

\* C37: an agent whose status is 'offline' is 'offline' in every later state, also
\* when a receiveMessage call entered before the shutdown ends after it
C37_OfflineIsAbsorbing ==
  [][\A a \in Agents : agent[a].status = "offline" => agent'[a].status = "offline"]_vars

\* C38: the response or error envelope an agent sends when its processMessage of
\* an envelope ends carries that envelope's id as inReplyTo
C38_InReplyToHandledEnvelope ==
  [][(last'.op = "processMessage" /\ Len(msgs') = Len(msgs) + 1) =>
       Emitted.payload.inReplyTo = msgs[last'.mid].id]_vars

-----------------------------------------------------------------------------
(* Unsigned fields: an outside caller constructs an envelope for doctor with the *)
(* default priority and ttl, assigns to the fields the signature leaves out    *)
(* and hands the envelope to a bus that holds doctor and charon.               *)

MaxUnsignedExt == 1
MaxUnsignedMsgs == 2

PriorityCritical == 1

UnsignedFields == {"recipients", "priority", "ttl"}

UnsignedTypes == {"report", "command"}

\* the values assigned to a field
UnsignedValues(field) ==
  CASE field = "recipients" -> {Single("charon"), List(<<"doctor", "charon">>), BroadcastSpec}
    [] field = "priority" -> {PriorityCritical}
    [] field = "ttl" -> {1}

\* the envelope m of an outside caller as its constructor left it
AsConstructed(m) ==
  [m EXCEPT !.recipients = Single("doctor"), !.priority = PriorityNormal,
            !.ttl = DefaultTtl]

InitUnsigned == BusConstructed({0}, <<"doctor", "charon">>) /\ SwarmConstructed

NextUnsigned ==
  \/ \E type \in UnsignedTypes :
       NewMessage("user", Single("doctor"), type, "d", DefaultTtl, MaxUnsignedExt)
  \/ \E mid \in 1..Len(msgs) : \E field \in UnsignedFields :
       \E v \in UnsignedValues(field) : Tamper(mid, field, v)
  \/ \E mid \in 1..Len(msgs) : BusSend(mid)
  \/ \E c \in 1..Len(calls) : \E i \in 1..Len(calls[c].dl), ok \in BOOLEAN :
       ProcessReturn(c, i, ok, MaxUnsignedMsgs)
  \/ \E c \in 1..Len(calls) : \E i \in 1..Len(calls[c].dl) : FinishReceive(c, i)

SpecUnsigned == InitUnsigned /\ [][NextUnsigned]_vars

\* C39: a send call on an envelope whose recipients, priority or ttl are not the
\* ones it was constructed with raises, and an envelope is delivered only to the
\* recipients it was constructed with
C39_ChangedEnvelopeRefused ==
  \A c \in 1..Len(calls) :
    LET m == msgs[calls[c].msg] IN
    m.sender = "user" =>
      /\ m # AsConstructed(m) => calls[c].threw
      /\ \A i \in 1..Len(calls[c].dl) :
           Contains(AsConstructed(m).recipients.ids, calls[c].dl[i].recipientId)

-----------------------------------------------------------------------------
(* Late replies: the swarm is initialised and a spending approval is submitted, *)
(* which goes to the council; the agents' processMessage of the query envelopes *)
(* may end before or after the queries have timed out.                          *)

MaxLateMsgs == 4

LateTask == Task("financial_approval", Num(501), Undefined, Undefined)

NextLate ==
  \/ SwarmInitialize
  \/ SubmitTask(LateTask, MaxLateMsgs)
  \/ \E c \in 1..Len(calls) : \E i \in 1..Len(calls[c].dl), ok \in BOOLEAN :
       ProcessReturn(c, i, ok, MaxLateMsgs)
  \/ \E c \in 1..Len(calls) : \E i \in 1..Len(calls[c].dl) : FinishReceive(c, i)
  \/ \E i \in 1..Len(queries) : QueryTimeout(i)

SpecLate == InitStrategy /\ [][NextLate]_vars

\* on this step an agent's processMessage of a query envelope returns after the
\* caller's wait for the reply has timed out
LateReply ==
  /\ last'.op = "processMessage"
  /\ last'.ret = "returned"
  /\ \E q \in 1..Len(queries) : queries[q].msg = last'.mid /\ queries[q].state = "rejected"

\* C32: the response an agent sends after the caller's wait has timed out is taken
\* by the bus, which appends it to the history and enters the recipient's
\* receiveMessage, and it changes neither a submitted task's state and result nor
\* the history of routed tasks nor the rejection the query was settled with
C32_LateReplyAcceptedAndIgnored ==
  [][LateReply =>
       /\ Len(msgs') = Len(msgs) + 1
       /\ Emitted.type = "response"
       /\ Emitted.sender = last'.channel
       /\ messageHistory' = Append(messageHistory, toJSON(Emitted))
       /\ Len(calls') = Len(calls) + 1
       /\ calls'[Len(calls')].msg = Len(msgs')
       /\ ~calls'[Len(calls')].threw
       /\ Len(calls'[Len(calls')].dl) = 1
       /\ calls'[Len(calls')].dl[1].recipientId = msgs[last'.mid].sender
       /\ calls'[Len(calls')].dl[1].st = "processing"
       /\ runs' = runs
       /\ taskHistory' = taskHistory
       /\ queries' = queries]_vars

\* the council's result was returned with every query timed out, then an agent
\* answered its query and the response is the latest entry of the bus's history
C32_Witness ==
  /\ last.op = "processMessage" /\ last.ret = "returned"
  /\ msgs[last.mid].type = "query"
  /\ Len(runs) = 1
  /\ runs[1].state = "returned"
  /\ runs[1].architecture = "council"
  /\ \A q \in 1..Len(queries) : queries[q].state = "rejected"
  /\ msgs[Len(msgs)].type = "response"
  /\ msgs[Len(msgs)].payload.inReplyTo = last.mid
  /\ messageHistory[Len(messageHistory)] = toJSON(msgs[Len(msgs)])

-----------------------------------------------------------------------------
(* Report: EmergencyArchitecture.execute(task, agents) of an initialised swarm's *)
(* orchestrator, called with one agent of the caller's making whose query is    *)
(* fulfilled or rejected; the report goes to the channel 'council'.             *)

MaxReportMsgs == 2

\* execute(task, agents) up to the await of agent.query; agents[0] is undefined
\* when the list is empty
EmergencyExecute ==
  /\ agent[Orchestrator].messageBus
  /\ exec.state = "called"
  /\ exec' = IF exec.agents = <<>> THEN settleWith(exec, Raised("TypeError"))
             ELSE [exec EXCEPT !.state = "running",
                               !.invoked = <<Invocation(1, TaskInput, 0)>>]
  /\ UNCHANGED <<busVars, initialized, queries, runs, taskHistory, task, selected>>

\* the agent's query settles: execute raises, or it calls
\* this.orchestrator.broadcast('council', MessageTypes.REPORT, {...}) and awaits it
EmergencyActed(max) ==
  /\ exec.state = "running"
  /\ 1 \in Waiting(exec)
  /\ LET ex == [exec EXCEPT !.settled = {1}] IN
     IF ~exec.outcomes[1].fulfilled
     THEN /\ exec' = settleWith(ex, Raised("rejected"))
          /\ UNCHANGED busVars
     ELSE IF "council" \notin DOMAIN channels \/ channels["council"] = <<>>
     THEN /\ exec' = settleWith(ex, Returned([status |-> "executed"]))
          /\ last' = Op("broadcast", 0, "council", "no_subscribers")
          /\ UNCHANGED <<now, msgs, agents, subscriptions, channels, messageHistory,
                         maxHistory, metrics, agent, calls>>
     ELSE /\ Len(msgs) < max
          /\ LET mid == Len(msgs) + 1
                 m == NewMessageObject(mid, Orchestrator, List(channels["council"]),
                                       "report", [inReplyTo |-> 0, data |-> "d"],
                                       PriorityNormal, DefaultTtl)
                 s == send([State EXCEPT !.msgs = Append(@, m)], mid)
             IN /\ Commit(s)
                /\ last' = Op("broadcast", mid, "council", SendRet(s))
                /\ exec' = [ex EXCEPT !.state = "reporting", !.report = Len(s.calls)]
          /\ UNCHANGED <<now, agents, subscriptions, channels, maxHistory>>
  /\ UNCHANGED <<initialized, queries, runs, taskHistory, task, selected>>

\* the promise of the broadcast is fulfilled: execute returns
EmergencyReported ==
  /\ exec.state = "reporting"
  /\ Settled(calls[exec.report])
  /\ exec' = settleWith(exec, Returned([status |-> "executed"]))
  /\ UNCHANGED <<busVars, initialized, queries, runs, taskHistory, task, selected>>

InitReport ==
  /\ BusConstructed({0}, <<>>)
  /\ initialized = FALSE
  /\ queries = <<>>
  /\ runs = <<>>
  /\ taskHistory = <<>>
  /\ task = NoTask
  /\ selected = NotCalled
  /\ \E n \in 0..1 : \E outcomes \in [1..n -> {Rejected, Fulfilled(NoReply)}] :
       exec = With(Called("emergency", EmergencyTask, outcomes, [i \in 1..n |-> 0]),
                   "report", 0)

NextReport ==
  \/ SwarmInitialize
  \/ EmergencyExecute
  \/ EmergencyActed(MaxReportMsgs)
  \/ EmergencyReported
  \/ \E c \in 1..Len(calls) : \E i \in 1..Len(calls[c].dl), ok \in BOOLEAN :
       ProcessReturn(c, i, ok, MaxReportMsgs)
  \/ \E c \in 1..Len(calls) : \E i \in 1..Len(calls[c].dl) : FinishReceive(c, i)

SpecReport == InitReport /\ [][NextReport]_vars

\* C33: once the agent has acted, execute has returned its 'executed' result,
\* whatever the recipients of the report are doing with it
C33_ReportDoesNotBlock ==
  (exec.agents # <<>> /\ 1 \in exec.settled /\ exec.outcomes[1].fulfilled) =>
    exec.state = "returned" /\ exec.result.status = "executed"

-----------------------------------------------------------------------------
(* Score: CompetitiveArchitecture.evaluateResult(result, task) on results whose *)
(* quality and confidence are numbers between 0 and 1, in hundredths            *)

ScoreLevels == {0, 25, 50, 75, 100}
ScoreTimes == {0, MaxExpectedTime \div 2, MaxExpectedTime, MaxExpectedTime + MaxExpectedTime \div 2}

InitScore ==
  /\ BusConstructed({0}, <<>>)
  /\ initialized = FALSE
  /\ queries = <<>>
  /\ runs = <<>>
  /\ taskHistory = <<>>
  /\ task = NoTask
  /\ selected = NotCalled
  /\ \E quality \in ScoreLevels, confidence \in ScoreLevels, executionTime \in ScoreTimes :
       exec = [state |-> "result",
               result |-> Reply(Undefined, Num(quality), Num(confidence), "d"),
               executionTime |-> executionTime, score |-> 0]

\* this.evaluateResult(result, task)
EvaluateResult ==
  /\ exec.state = "result"
  /\ exec' = [exec EXCEPT !.state = "scored", !.score = evaluateResult(exec)]
  /\ UNCHANGED <<busVars, initialized, queries, runs, taskHistory, task, selected>>

NextScore == EvaluateResult

SpecScore == InitScore /\ [][NextScore]_vars

\* max(0, 1 - executionTime / maxExpectedTime), times maxExpectedTime
SpeedScore(executionTime) ==
  IF executionTime < MaxExpectedTime THEN MaxExpectedTime - executionTime ELSE 0

\* C34: the score of a result is 0.6 * quality + 0.3 * max(0, 1 - executionTime / 30000)
\* + 0.1 * confidence, for every quality and confidence from 0 to 1 and every
\* execution time (both sides times 100 * 30000 * 10)
C34_ScoreIsWeightedSum ==
  exec.state = "scored" =>
    exec.score = exec.result.quality.n * 6 * MaxExpectedTime
                   + SpeedScore(exec.executionTime) * 3 * 100
                   + exec.result.confidence.n * MaxExpectedTime

\* C35: when selectAgents has scored the agents, the success-rate term of an agent
\* that has completed or failed a task is 0.2 times its success rate, and the term
\* of an agent that has received no envelope yet is 0.2 times 0.8
C35_SuccessTermDefault ==
  exec.state = "selected" =>
    \A a \in Candidates :
      /\ agent[a].tasksCompleted + agent[a].tasksFailed > 0 =>
           successTerm(agent[a]) =
             Times(Quotient(agent[a].tasksCompleted,
                            agent[a].tasksCompleted + agent[a].tasksFailed), PointTwo)
      /\ agent[a].messagesReceived = 0 =>
           successTerm(agent[a]) = Times(PointEight, PointTwo)

-----------------------------------------------------------------------------
(* Error chain: doctor and charon are agents whose processMessage always raises; *)
(* reports whose sender field names an outside caller, doctor or charon are     *)
(* sent to doctor.  What is awaited settles in the end: processMessage raises,  *)
(* and a receiveMessage call goes on when its nested send has resolved.          *)

MaxChainExt == 2
MaxChainMsgs == 4

ChainAgents == <<"doctor", "charon">>
ChainSenders == {"user", "doctor", "charon"}

InitChain == BusConstructed({0}, ChainAgents) /\ SwarmConstructed

NextChain ==
  \/ \E sender \in ChainSenders :
       NewMessage(sender, Single("doctor"), "report", "d", DefaultTtl, MaxChainExt)
  \/ \E mid \in 1..Len(msgs) : BusSend(mid)
  \/ \E c \in 1..Len(calls) : \E i \in 1..Len(calls[c].dl) :
       ProcessReturn(c, i, FALSE, MaxChainMsgs)
  \/ \E c \in 1..Len(calls) : \E i \in 1..Len(calls[c].dl) : FinishReceive(c, i)

FairChain ==
  /\ WF_vars(\E mid \in 1..Len(msgs) : BusSend(mid))
  /\ WF_vars(\E c \in 1..Len(calls) : \E i \in 1..Len(calls[c].dl) :
               ProcessReturn(c, i, FALSE, MaxChainMsgs))
  /\ WF_vars(\E c \in 1..Len(calls) : \E i \in 1..Len(calls[c].dl) : FinishReceive(c, i))

SpecChain == InitChain /\ [][NextChain]_vars /\ FairChain

\* the promise the c-th send call returned is fulfilled
SendCompleted(c) == IF c <= Len(calls) THEN Settled(calls[c]) ELSE FALSE

ChainPending ==
  \A c \in 1..Len(calls) :
    (/\ msgs[calls[c].msg].sender \in Range(ChainAgents)
     /\ Range(msgs[calls[c].msg].recipients.ids) \subseteq Range(ChainAgents))
      => ~Settled(calls[c])

\* the chain has answered an error envelope with another error envelope
ChainGrows ==
  \E c \in 1..Len(calls) :
    /\ msgs[calls[c].msg].type = "error"
    /\ ~Settled(calls[c])
    /\ \E m \in 1..Len(msgs) : msgs[m].type = "error" /\ m > calls[c].msg

=============================================================================
